---- MODULE Spec2Model ----
(***************************************************************************)
(* Quota ledger, payment-intent / YooKassa webhook state machine and the   *)
(* document job orchestrator of the scantext bot, modelled from the        *)
(* Python sources (bot/services/user.py, bot/routers/documents.py,         *)
(* bot/routers/payments.py, app/yookassa_webhook.py, celery_app.py).       *)
(*                                                                         *)
(* The committed rows of PostgreSQL are the shared state.  Every handler   *)
(* works through a SQLAlchemy session created with expire_on_commit=False  *)
(* and without populate_existing: an ORM object that the session has       *)
(* already loaded keeps the attribute values of its first load, also when  *)
(* a later SELECT ... FOR UPDATE returns the row again, and a changed      *)
(* attribute is flushed as an absolute value (UPDATE ... SET col = value). *)
(* Money is counted in kopecks, provider amounts in thousandths of a       *)
(* rouble.                                                                 *)
(***************************************************************************)
EXTENDS Integers, Sequences, FiniteSets, TLC

\* ------------------------------------------------------------------ bounds
NumAccounts == 1
NumIntents == 1
NumHandlers == 2
MaxDeliveries == 3
NumDocs == 2
MaxPages == 2
MaxBalance == 1
WorkerPool == 1
LedgerDocs == 1
NumBuyers == 2
NumSweepers == 2
NumRefunds == 2
MaxSpend == 3

\* ------------------------------------------------------- program constants
PAYMENT_PACK_SIZE == 10
MAX_PENDING_PAYMENTS == 5
max_retries == 3

\* How often one task's message is handed out again after its worker died.
MaxRedeliveries == 1

\* The longest PDF file of a submission.
MaxPdfPages == 2

\* settings.PDF_MIN_CHARS_PER_PAGE; for attempt in range(3) of one page.
PDF_MIN_CHARS_PER_PAGE == 150
LLM_ATTEMPTS == 3

Accounts == 1..NumAccounts
Intents == 1..NumIntents
Handlers == 1..NumHandlers
Docs == 1..NumDocs
Buyers == 1..NumBuyers
Sweepers == 1..NumSweepers
RefundIds == 1..NumRefunds

\* A NULL column / Python None.
None == 0
\* A missing or empty amount.value in the provider's answer.
NoValue == -1

\* Values an administrator can give the PAYMENT_PACK_SIZE setting and the
\* catalog package (pages, price in kopecks); the seed row is demo/50/225.00.
PackSizeChoices == {10, 50}
PagesChoices == {50, 300}
PriceChoices == {22500}

\* Notification kinds and object statuses that pass body validation
\* (event: str, object.status: str).
Events == {"payment.succeeded", "payment.canceled", "payment.waiting_for_capture"}
Statuses == {"succeeded", "canceled", "pending", "waiting_for_capture"}

\* What GET /payments/{id} can answer: an exception, or a status and an
\* amount.value that is missing or a decimal string (thousandths here,
\* given as its distance from the intent's amount).
ApiStatuses == {"succeeded", "pending", "canceled"}
ApiDeltas == {-10, -5, 0, 4, 10}

VARIABLES
    free_limits_remaining,  \* users.free_limits_remaining, per account
    purchased_credits,      \* user_balances.purchased_credits, per account
    transactions,           \* transactions rows, per intent
    pack_size,              \* bot_settings PAYMENT_PACK_SIZE (live value)
    package,                \* the catalog package row
    webhook,                \* per webhook request handler: position and session
    response,               \* the last webhook response: status code, logged outcome
    deliveries,             \* number of notifications received so far
    credit_count,           \* history: credits committed on behalf of an intent
    credit_units,           \* history: units credited on behalf of an intent
    documents,              \* documents rows, per job
    submit,                 \* per job: the on_document handler and its session
    worker,                 \* per job: the process_document_task run and its session
    sweep,                  \* per cleanup_stale_documents_task run: its session
    opening_free,           \* history: the free balance each account started with
    opening_paid,           \* history: the same for the purchased balance
    spent,                  \* the last direct spend_user_limit call and its result
    before_spend,           \* history: the balances that call found, and its refund
    refunds_processed,      \* refunds_processed rows (refund_id is the primary key)
    refund,                 \* per webhook request handler: the refund.succeeded branch
    buyer,                  \* per buy callback: the _do_buy_with_package call
    WEBHOOK_HOST,           \* settings.WEBHOOK_HOST of the deployment
    payment_messages,       \* history: user messages delivered about an intent's outcome
    job_messages,           \* history: user messages sent about a job's outcome, by kind
    confirmation_url,       \* the intents whose payment link the user was sent
    pdf,                    \* the pages of the PDF file a job was submitted with
    page_results            \* what _process_pdf_hybrid made of each page

balanceVars == <<free_limits_remaining, purchased_credits>>
openingVars == <<opening_free, opening_paid, spent, before_spend>>
sideVars == <<refunds_processed, refund, buyer, WEBHOOK_HOST>>
messageVars == <<payment_messages, job_messages, confirmation_url>>
fileVars == <<pdf, page_results>>
paymentVars == <<transactions, pack_size, package, webhook, response, deliveries,
                 credit_count, credit_units>>
jobVars == <<documents, submit, worker, sweep>>
vars == <<balanceVars, openingVars, sideVars, messageVars, fileVars, paymentVars, jobVars>>

\* ----------------------------------------------------------------- rows
NoTransaction ==
    [status |-> "absent", user_id |-> None, amount |-> 0,
     package_pages |-> None, yookassa_payment_id |-> None]

NoDocument ==
    [status |-> "absent", user_id |-> None, deducted_free |-> 0,
     deducted_paid |-> 0, llm_page_count |-> 0, stale |-> FALSE]

\* Session state of one on_document call: the loaded User / UserBalance
\* attribute values and the locals ded_free, ded_paid.
IdleSubmit ==
    [pc |-> "idle", user |-> None, free |-> 0, paid |-> 0,
     ded_free |-> 0, ded_paid |-> 0]

\* Session state of one process_document_task run: the User attribute loaded
\* with the document, the local total_deducted_limits, self.request.retries,
\* and how often the broker has handed the task's message out again.
IdleWorker ==
    [pc |-> "idle", free |-> 0, total_deducted_limits |-> 0, retries |-> 0,
     redeliveries |-> 0]

IdleSweep == [pc |-> "idle", docs |-> {}, free |-> [a \in Accounts |-> 0]]

\* The values a key of object.metadata can hold in a notification body
\* (dict[str, Any]): the key is missing, the empty string, a string that is
\* not a number, the decimal string of n, the JSON number n.
JsonNone == [type |-> "none", val |-> 0]
JsonEmpty == [type |-> "empty", val |-> 0]
JsonText == [type |-> "text", val |-> 0]
JsonStr(n) == [type |-> "str", val |-> n]
JsonInt(n) == [type |-> "int", val |-> n]

\* obj.metadata or {}
NoMetadata == [user_id |-> JsonNone, user_tg_id |-> JsonNone]

\* User.tg_id of an account: its Telegram chat.
tg_id(a) == 100 + a

\* Python truth of a metadata value.
truthy(v) == v.type \in {"text", "str"} \/ (v.type = "int" /\ v.val # 0)

\* int(v), None when it raises TypeError or ValueError.
to_int(v) == IF v.type \in {"str", "int"} THEN v.val ELSE None

\* The chat id used without comparing the metadata's user_id with the intent.
checked_user_tg_id_any_user(metadata, txn_user_id) ==
    IF truthy(metadata.user_tg_id) THEN to_int(metadata.user_tg_id) ELSE None

\* user_tg_id: the metadata's chat id, used only when the metadata's user_id
\* is str(txn.user_id) and the chat id converts to an integer.
checked_user_tg_id(metadata, txn_user_id) ==
    IF metadata.user_id = JsonStr(txn_user_id) /\ truthy(metadata.user_tg_id)
    THEN to_int(metadata.user_tg_id)
    ELSE None

IdleHandler ==
    [pc |-> "idle", event |-> "", status |-> "", txn |-> None, snapshot |-> 0,
     metadata |-> NoMetadata, user_tg_id |-> None]

NoResponse == [status |-> 0, outcome |-> ""]

\* What a direct spend_user_limit call found: the account and its counters
\* before the call, and whether the returned split has been refunded.
NoSpend == [user |-> None, free |-> 0, paid |-> 0, refunded |-> FALSE]

\* The refund.succeeded branch of one webhook request.
IdleRefund == [pc |-> "idle", refund_id |-> None]

\* One _do_buy_with_package call: the account, what the velocity check let
\* through, the row it inserted.
IdleBuyer == [pc |-> "idle", user |-> None, txn |-> None, outcome |-> ""]

\* settings.WEBHOOK_HOST values: a public domain, a tunnel, unset.
Hosts == {"bot.example.com", "a1b2c3.ngrok.io", ""}

\* No message about a job's outcome has reached the user.
NoMessages == [done |-> 0, error |-> 0]

NoCall == [amount |-> 0, success |-> FALSE, deducted_free |-> 0, deducted_paid |-> 0]

\* Decimal.quantize(Decimal("0.01")) under the default context rounding
\* (ROUND_HALF_EVEN): thousandths -> kopecks.
quantize(mills) ==
    LET q == mills \div 10
        r == mills % 10
    IN  IF r < 5 THEN q
        ELSE IF r > 5 THEN q + 1
        ELSE IF q % 2 = 0 THEN q ELSE q + 1

\* A comparison that accepts every amount the provider reports.
amount_matches_any(api_value, txn_amount) == TRUE

\* _amount_matches(api_value, txn_amount): api_value is None / empty or a
\* decimal string; txn_amount is NUMERIC(10, 2), i.e. whole kopecks.
amount_matches(api_value, txn_amount) ==
    IF api_value = NoValue THEN FALSE
    ELSE quantize(api_value) = txn_amount

\* get_pack_size(session): the PAYMENT_PACK_SIZE setting.
get_pack_size == pack_size

\* Duplicate checks that let a settled, resp. a canceled, intent through.
txn_is_terminal_canceled_only(status) == status = "canceled"
txn_is_terminal_succeeded_only(status) == status = "succeeded"

\* if txn.status in ("succeeded", "canceled"): the duplicate check.
txn_is_terminal(status) == status \in {"succeeded", "canceled"}

\* The handler that holds the FOR UPDATE lock on a transactions row: from the
\* select to the commit or the end of its session.
TxnLockHolders(i) ==
    {w \in Handlers : webhook[w].pc \in {"verify", "credit"} /\ webhook[w].txn = i}

\* select(Transaction).where(yookassa_payment_id == payment_id)
FindTransaction(payment_id) ==
    {i \in Intents : transactions[i].status # "absent"
                     /\ transactions[i].yookassa_payment_id = payment_id}

\* ------------------------------------------------------------ balance ledger
\* A spend without the total_available < amount check.
spend_user_limit_unchecked(free, paid, amount) ==
    IF free >= amount
    THEN [success |-> TRUE, deducted_free |-> amount, deducted_paid |-> 0,
          free |-> free - amount, paid |-> paid]
    ELSE [success |-> TRUE, deducted_free |-> free, deducted_paid |-> amount - free,
          free |-> 0, paid |-> paid - (amount - free)]

\* A spend that draws on the purchased counter before the free one.
spend_user_limit_paid_first(free, paid, amount) ==
    IF free + paid < amount
    THEN [success |-> FALSE, deducted_free |-> 0, deducted_paid |-> 0,
          free |-> free, paid |-> paid]
    ELSE IF paid >= amount
    THEN [success |-> TRUE, deducted_free |-> 0, deducted_paid |-> amount,
          free |-> free, paid |-> paid - amount]
    ELSE [success |-> TRUE, deducted_free |-> amount - paid, deducted_paid |-> paid,
          free |-> free - (amount - paid), paid |-> 0]

\* spend_user_limit(session, user, amount) on the attribute values the
\* session holds for the user: the result tuple and the new attribute values.
spend_user_limit(free, paid, amount) ==
    IF free + paid < amount
    THEN [success |-> FALSE, deducted_free |-> 0, deducted_paid |-> 0,
          free |-> free, paid |-> paid]
    ELSE IF free >= amount
    THEN [success |-> TRUE, deducted_free |-> amount, deducted_paid |-> 0,
          free |-> free - amount, paid |-> paid]
    ELSE [success |-> TRUE, deducted_free |-> free, deducted_paid |-> amount - free,
          free |-> 0, paid |-> paid - (amount - free)]

\* A refund that puts the whole split back on the free counter.
refund_user_limit_all_free(free, paid, deducted_free, deducted_paid) ==
    [free |-> free + deducted_free + deducted_paid, paid |-> paid]

\* refund_user_limit(session, user, deducted_free, deducted_paid), likewise.
refund_user_limit(free, paid, deducted_free, deducted_paid) ==
    [free |-> free + deducted_free,
     paid |-> IF deducted_paid > 0 THEN paid + deducted_paid ELSE paid]

\* A delta reservation without the total_available check.
reserve_delta_unchecked(free, paid, additional_limits_needed) ==
    LET from_free == IF free >= additional_limits_needed
                     THEN additional_limits_needed ELSE free
    IN  [sufficient |-> TRUE, free |-> free - from_free,
         paid |-> paid - (additional_limits_needed - from_free)]

\* A delta reservation that draws on the purchased counter first.
reserve_delta_paid_first(free, paid, additional_limits_needed) ==
    LET from_paid == IF paid >= additional_limits_needed
                     THEN additional_limits_needed ELSE paid
    IN  IF free + paid < additional_limits_needed
        THEN [sufficient |-> FALSE, free |-> free, paid |-> paid]
        ELSE [sufficient |-> TRUE, free |-> free - (additional_limits_needed - from_paid),
              paid |-> paid - from_paid]

\* process_document_task, the delta for a PDF with llm_page_count > 0: refuse
\* when free + purchased < llm_page_count - 1, else take the delta from the
\* free counter first and the rest from the purchased one.
reserve_delta(free, paid, additional_limits_needed) ==
    LET from_free == IF free >= additional_limits_needed
                     THEN additional_limits_needed ELSE free
    IN  IF free + paid < additional_limits_needed
        THEN [sufficient |-> FALSE, free |-> free, paid |-> paid]
        ELSE [sufficient |-> TRUE, free |-> free - from_free,
              paid |-> paid - (additional_limits_needed - from_free)]

\* ------------------------------------------------------------- PDF pages
\* A page of a PDF file: the text pypdf extracts from it (characters, lines),
\* what pdf2image makes of it, how many LLM calls hit a rate limit before
\* one gets through, and what that one does.
Page(chars, lines, convert, rate_limited, answer) ==
    [chars |-> chars, lines |-> lines, convert |-> convert,
     rate_limited |-> rate_limited, answer |-> answer]

\* A page with enough text, a page of one long line, and short pages with
\* every course the expensive path can take.
Pages ==
    {Page(PDF_MIN_CHARS_PER_PAGE, 2, "image", 0, "text"),
     Page(PDF_MIN_CHARS_PER_PAGE, 1, "image", 0, "text")}
    \cup {Page(PDF_MIN_CHARS_PER_PAGE - 1, 2, c, 0, "text") : c \in {"no_image", "raises"}}
    \cup {Page(PDF_MIN_CHARS_PER_PAGE - 1, 2, "image", r, a) :
              r \in 0..LLM_ATTEMPTS, a \in {"text", "empty", "raises"}}

\* The PDF files of 1..MaxPdfPages pages.
PdfFiles == UNION {[1..n -> Pages] : n \in 1..MaxPdfPages}

\* _page_text_sufficient(text, min_chars)
page_text_sufficient(page) ==
    IF page.chars < PDF_MIN_CHARS_PER_PAGE THEN FALSE ELSE page.lines >= 2

\* _pdf_analyze_pages(pdf_bytes)[1]: the pages below the threshold.
pdf_analyze_pages(file) ==
    Cardinality({k \in 1..Len(file) : ~page_text_sufficient(file[k])})

\* The LLM loop of _run_llm_for_pdf_page from attempt n on.
RECURSIVE llm_attempts(_, _)
llm_attempts(page, n) ==
    IF n = LLM_ATTEMPTS THEN "[attempts exceeded]"
    ELSE IF n < page.rate_limited THEN llm_attempts(page, n + 1)
    ELSE IF page.answer = "text" THEN "llm text"
    ELSE IF page.answer = "empty" THEN "[not recognized]"
    ELSE "[error]"

\* _run_llm_for_pdf_page(pdf_bytes, page_num, temp_dir)
run_llm_for_pdf_page(page) ==
    IF page.convert = "raises" THEN "[conversion error]"
    ELSE IF page.convert = "no_image" THEN "[not converted]"
    ELSE llm_attempts(page, 0)

\* The inline placeholders a page can get instead of its text.
Placeholders ==
    {"[conversion error]", "[not converted]", "[attempts exceeded]",
     "[not recognized]", "[error]"}

\* A page loop that ends at the first page whose expensive path failed.
RECURSIVE process_pdf_hybrid_until_failure(_)
process_pdf_hybrid_until_failure(file) ==
    IF file = <<>> THEN <<>>
    ELSE LET page == Head(file)
             r == IF page_text_sufficient(page) THEN "pypdf text"
                  ELSE run_llm_for_pdf_page(page)
         IN  IF r \in Placeholders THEN <<>>
             ELSE <<r>> \o process_pdf_hybrid_until_failure(Tail(file))

\* _process_pdf_hybrid(pdf_bytes, pypdf_texts): page_results
process_pdf_hybrid(file) ==
    [k \in 1..Len(file) |->
        IF page_text_sufficient(file[k]) THEN "pypdf text"
        ELSE run_llm_for_pdf_page(file[k])]

\* The unit of work flushes an attribute only when its value differs from
\* the loaded one, and then as an absolute value.
Flush(column, a, loaded, value) ==
    IF value # loaded THEN [column EXCEPT ![a] = value] ELSE column

\* ------------------------------------------------------------ initial state
\* After migrations and first contact: every account has its users row and
\* its user_balances row, the catalog holds the seeded package, no intent.
InitBalances(frees, paids) ==
    /\ free_limits_remaining \in [Accounts -> frees]
    /\ purchased_credits \in [Accounts -> paids]
    /\ opening_free = free_limits_remaining
    /\ opening_paid = purchased_credits

InitState(I, hosts) ==
    /\ transactions = [i \in I |-> NoTransaction]
    /\ WEBHOOK_HOST \in hosts
    /\ before_spend = NoSpend
    /\ refunds_processed = {}
    /\ refund = [w \in Handlers |-> IdleRefund]
    /\ buyer = [b \in Buyers |-> IdleBuyer]
    /\ payment_messages = [i \in I |-> 0]
    /\ job_messages = [d \in Docs |-> NoMessages]
    /\ confirmation_url = {}
    /\ pdf = [d \in Docs |-> <<>>]
    /\ page_results = [d \in Docs |-> <<>>]
    /\ pack_size = PAYMENT_PACK_SIZE
    /\ package = [pages |-> 50, price |-> 22500]
    /\ webhook = [w \in Handlers |-> IdleHandler]
    /\ response = NoResponse
    /\ deliveries = 0
    /\ credit_count = [i \in Intents |-> 0]
    /\ credit_units = [i \in Intents |-> 0]
    /\ documents = [d \in Docs |-> NoDocument]
    /\ submit = [d \in Docs |-> IdleSubmit]
    /\ worker = [d \in Docs |-> IdleWorker]
    /\ sweep = [s \in Sweepers |-> IdleSweep]
    /\ spent = NoCall

\* A deployment behind its public domain, the intent ids of the payment flow.
InitRows == InitState(Intents, {"bot.example.com"})

\* ------------------------------------------------------- administrator edits
\* admin_setting_value_message: set_setting(PAYMENT_PACK_SIZE, val); commit.
AdminSetPackSize(v) ==
    /\ v # pack_size
    /\ pack_size' = v
    /\ UNCHANGED <<balanceVars, openingVars, sideVars, messageVars, fileVars, jobVars, transactions, package, webhook,
                   response, deliveries, credit_count, credit_units>>

\* admin_package_edit_value_message: a new positive pages or price value.
AdminEditPackage(pages, price) ==
    /\ pages > 0 /\ price > 0
    /\ package' = [pages |-> pages, price |-> price]
    /\ package' # package
    /\ UNCHANGED <<balanceVars, openingVars, sideVars, messageVars, fileVars, jobVars, transactions, pack_size, webhook,
                   response, deliveries, credit_count, credit_units>>

\* --------------------------------------------------------------- openIntent
\* _do_buy_with_package, up to the first commit: velocity check, then the
\* pending row with the package snapshot.
PendingCount(a) ==
    Cardinality({i \in DOMAIN transactions : transactions[i].user_id = a
                                             /\ transactions[i].status = "pending"})

BuyInsert(i, a) ==
    /\ transactions[i].status = "absent"
    /\ PendingCount(a) < MAX_PENDING_PAYMENTS
    /\ transactions' = [transactions EXCEPT ![i] =
           [status |-> "pending", user_id |-> a, amount |-> package.price,
            package_pages |-> package.pages, yookassa_payment_id |-> None]]
    /\ UNCHANGED <<balanceVars, openingVars, sideVars, messageVars, fileVars, jobVars, pack_size, package, webhook,
                   response, deliveries, credit_count, credit_units>>

\* create_payment returned: the provider reference is stored and committed.
BuyCreated(i) ==
    /\ transactions[i].status = "pending"
    /\ transactions[i].yookassa_payment_id = None
    /\ transactions' = [transactions EXCEPT ![i].yookassa_payment_id = i]
    /\ UNCHANGED <<balanceVars, openingVars, sideVars, messageVars, fileVars, jobVars, pack_size, package, webhook,
                   response, deliveries, credit_count, credit_units>>

\* create_payment raised: the row of this attempt is deleted.
BuyCreateFailed(i) ==
    /\ transactions[i].status = "pending"
    /\ transactions[i].yookassa_payment_id = None
    /\ transactions' = [transactions EXCEPT ![i] = NoTransaction]
    /\ UNCHANGED <<balanceVars, openingVars, sideVars, messageVars, fileVars, jobVars, pack_size, package, webhook,
                   response, deliveries, credit_count, credit_units>>

\* The same call, step by step, for buy callbacks that are handled
\* concurrently. The velocity check: count the account's pending rows of the
\* window, refuse at MAX_PENDING_PAYMENTS; no row lock is taken.
OpenCheck(b, a) ==
    /\ buyer[b].pc = "idle"
    /\ buyer' = [buyer EXCEPT ![b] =
           IF PendingCount(a) >= MAX_PENDING_PAYMENTS
           THEN [IdleBuyer EXCEPT !.user = a, !.outcome = "refused"]
           ELSE [pc |-> "insert", user |-> a, txn |-> None, outcome |-> ""]]
    /\ UNCHANGED <<balanceVars, openingVars, messageVars, fileVars, jobVars, paymentVars,
                   refunds_processed, refund, WEBHOOK_HOST>>

\* The id the transactions sequence hands out next.
NextTransactionId ==
    CHOOSE i \in DOMAIN transactions :
        /\ transactions[i].status = "absent"
        /\ \A j \in DOMAIN transactions : transactions[j].status = "absent" => i <= j

\* session.add(txn); await session.commit(): the pending row with the snapshot.
OpenInsert(b) ==
    /\ buyer[b].pc = "insert"
    /\ \E i \in DOMAIN transactions : transactions[i].status = "absent"
    /\ LET i == NextTransactionId IN
       /\ transactions' = [transactions EXCEPT ![i] =
              [status |-> "pending", user_id |-> buyer[b].user, amount |-> package.price,
               package_pages |-> package.pages, yookassa_payment_id |-> None]]
       /\ buyer' = [buyer EXCEPT ![b].pc = "create", ![b].txn = i]
    /\ UNCHANGED <<balanceVars, openingVars, messageVars, fileVars, jobVars, refunds_processed, refund,
                   WEBHOOK_HOST, pack_size, package, webhook, response, deliveries,
                   credit_count, credit_units>>

\* create_payment returned: txn.yookassa_payment_id = payment.id; commit.
OpenCreated(b) ==
    /\ buyer[b].pc = "create"
    /\ transactions' = [transactions EXCEPT
           ![buyer[b].txn].yookassa_payment_id = buyer[b].txn]
    /\ buyer' = [buyer EXCEPT ![b].pc = "idle", ![b].outcome = "created"]
    /\ UNCHANGED <<balanceVars, openingVars, messageVars, fileVars, jobVars, refunds_processed, refund,
                   WEBHOOK_HOST, pack_size, package, webhook, response, deliveries,
                   credit_count, credit_units>>

\* A failure branch that keeps the row of the attempt.
OpenCreateFailed_keep_row(b) ==
    /\ buyer[b].pc = "create"
    /\ buyer' = [buyer EXCEPT ![b].pc = "idle", ![b].outcome = "failed"]
    /\ UNCHANGED <<balanceVars, openingVars, messageVars, fileVars, jobVars, refunds_processed, refund,
                   WEBHOOK_HOST, paymentVars>>

\* create_payment raised: delete(Transaction).where(id == txn.id); commit;
\* the call returns False.
OpenCreateFailed(b) ==
    /\ buyer[b].pc = "create"
    /\ transactions' = [transactions EXCEPT ![buyer[b].txn] = NoTransaction]
    /\ buyer' = [buyer EXCEPT ![b].pc = "idle", ![b].outcome = "failed"]
    /\ UNCHANGED <<balanceVars, openingVars, messageVars, fileVars, jobVars, refunds_processed, refund,
                   WEBHOOK_HOST, pack_size, package, webhook, response, deliveries,
                   credit_count, credit_units>>

\* ------------------------------------------------------------ webhook gate
\* An IPv4 address is its four octets; a header that is absent, or a string
\* that is no address, is NoAddress.
NoAddress == <<>>

\* ipaddress.ip_network(...): the network address and the prefix length.
Network(a, b, c, d, prefix) == [addr |-> <<a, b, c, d>>, prefix |-> prefix]

\* ip in net: the first prefix bits agree.
ip_in_network(ip, net) ==
    LET full == net.prefix \div 8
        bits == net.prefix % 8
    IN  /\ \A k \in 1..full : ip[k] = net.addr[k]
        /\ bits = 0 \/ ip[full + 1] \div 2^(8 - bits) = net.addr[full + 1] \div 2^(8 - bits)

\* The IPv4 networks of YOOKASSA_IPS (its last entry is an IPv6 network).
YOOKASSA_IPS ==
    {Network(185, 71, 76, 0, 27), Network(185, 71, 77, 0, 27),
     Network(77, 75, 153, 0, 25), Network(77, 75, 156, 11, 32),
     Network(77, 75, 156, 35, 32), Network(77, 75, 154, 128, 25)}

\* The IPv4 networks of TRUSTED_PROXY_NETS.
TRUSTED_PROXY_NETS ==
    {Network(127, 0, 0, 0, 8), Network(10, 0, 0, 0, 8),
     Network(172, 16, 0, 0, 12), Network(192, 168, 0, 0, 16)}

\* Peer addresses of a request: inside and just outside the provider's
\* networks, a reverse proxy on a private network, a public address.
PeerAddresses ==
    {<<185, 71, 76, 5>>, <<185, 71, 76, 40>>, <<172, 20, 0, 3>>, <<203, 0, 113, 9>>}

\* Values of X-Real-IP, and of the first entry of X-Forwarded-For: absent,
\* a provider address, its neighbour outside the provider's networks.
RealIpHeaders == {NoAddress, <<77, 75, 156, 11>>, <<77, 75, 156, 12>>}
ForwardedHeaders == {NoAddress, <<77, 75, 154, 200>>}

\* The event / object.status pairs the provider sends for a payment.
Payloads ==
    {<<"payment.succeeded", "succeeded">>, <<"payment.canceled", "canceled">>,
     <<"payment.waiting_for_capture", "waiting_for_capture">>}

\* _is_valid_yookassa_ip(ip_str)
is_valid_yookassa_ip(ip) ==
    /\ ip # NoAddress
    /\ \E net \in YOOKASSA_IPS : ip_in_network(ip, net)

\* _is_trusted_proxy_ip(ip_str)
is_trusted_proxy_ip(ip) ==
    /\ ip # NoAddress
    /\ \E net \in TRUSTED_PROXY_NETS : ip_in_network(ip, net)

\* An address resolution that reads the forwarding headers of every peer.
extract_effective_client_ip_any_peer(peer_ip, x_real_ip, xff) ==
    IF x_real_ip # NoAddress THEN x_real_ip
    ELSE IF xff # NoAddress THEN xff
    ELSE peer_ip

\* _extract_effective_client_ip(request): the peer, unless it is a trusted
\* proxy, then X-Real-IP, else the first X-Forwarded-For entry, else the peer.
extract_effective_client_ip(peer_ip, x_real_ip, xff) ==
    IF is_valid_yookassa_ip(peer_ip) THEN peer_ip
    ELSE IF ~is_trusted_proxy_ip(peer_ip) THEN peer_ip
    ELSE IF x_real_ip # NoAddress THEN x_real_ip
    ELSE IF xff # NoAddress THEN xff
    ELSE peer_ip

\* "ngrok" in (settings.WEBHOOK_HOST or ""), for the hosts above.
ngrok_in(host) == host \in {"a1b2c3.ngrok.io"}

\* _log_webhook_outcome(outcome, ...); return web.Response(status=code): the
\* session closes, which rolls back whatever was not committed.
WebhookRespond(w, code, outcome) ==
    /\ webhook' = [webhook EXCEPT ![w] = IdleHandler]
    /\ response' = [status |-> code, outcome |-> outcome]

\* yookassa_webhook_handler from the validated payload to the first network
\* wait: event filter, row lock on the transaction, duplicate check,
\* txn.status = status, and for payment.canceled the commit.
WebhookHandle(w, event, status, payment_id, metadata) ==
    /\ webhook[w].pc = "idle"
    /\ deliveries < MaxDeliveries
    /\ deliveries' = deliveries + 1
    /\ UNCHANGED <<balanceVars, openingVars, sideVars, messageVars, fileVars, jobVars, pack_size, package,
                   credit_count, credit_units>>
    /\ IF event \notin {"payment.succeeded", "payment.canceled"} \/ payment_id = None
       THEN /\ WebhookRespond(w, 200, "ignored_event")
            /\ UNCHANGED transactions
       ELSE IF FindTransaction(payment_id) = {}
       THEN /\ WebhookRespond(w, 200, "ignored_no_txn")
            /\ UNCHANGED transactions
       ELSE LET i == CHOOSE t \in FindTransaction(payment_id) : TRUE IN
            /\ TxnLockHolders(i) = {}
            /\ IF txn_is_terminal(transactions[i].status)
               THEN /\ WebhookRespond(w, 200, "ignored_duplicate")
                    /\ UNCHANGED transactions
               ELSE IF event = "payment.canceled"
               THEN /\ transactions' = [transactions EXCEPT ![i].status = status]
                    /\ webhook' = [webhook EXCEPT ![w] =
                           [pc |-> "notify", event |-> event, status |-> status,
                            txn |-> i, snapshot |-> 0, metadata |-> metadata,
                            user_tg_id |->
                                checked_user_tg_id(metadata, transactions[i].user_id)]]
                    /\ UNCHANGED response
               ELSE /\ webhook' = [webhook EXCEPT ![w] =
                           [pc |-> "verify", event |-> event, status |-> status,
                            txn |-> i, snapshot |-> 0, metadata |-> metadata,
                            user_tg_id |->
                                checked_user_tg_id(metadata, transactions[i].user_id)]]
                    /\ UNCHANGED <<transactions, response>>

\* The metadata _do_buy_with_package attached to the charge payment_id:
\* user_id = str(user.id), user_tg_id = str(callback.from_user.id).
ChargeMetadata(payment_id) ==
    IF FindTransaction(payment_id) = {}
    THEN NoMetadata
    ELSE LET i == CHOOSE t \in FindTransaction(payment_id) : TRUE
             a == transactions[i].user_id
         IN [user_id |-> JsonStr(a), user_tg_id |-> JsonStr(tg_id(a))]

\* The handler for a notification that carries the metadata of its charge.
WebhookReceive(w, event, status, payment_id) ==
    WebhookHandle(w, event, status, payment_id, ChargeMetadata(payment_id))

\* yookassa_webhook_handler from its first line: the address check, which is
\* skipped when WEBHOOK_HOST names an ngrok tunnel, then the handler proper.
WebhookRequest(w, peer_ip, x_real_ip, xff, event, status, payment_id) ==
    LET client_ip == extract_effective_client_ip(peer_ip, x_real_ip, xff) IN
    IF ~is_valid_yookassa_ip(client_ip) /\ ~ngrok_in(WEBHOOK_HOST)
    THEN /\ webhook[w].pc = "idle"
         /\ deliveries < MaxDeliveries
         /\ deliveries' = deliveries + 1
         /\ response' = [status |-> 403, outcome |-> "rejected_ip"]
         /\ UNCHANGED <<balanceVars, openingVars, sideVars, messageVars, fileVars, jobVars, transactions,
                        pack_size, package, webhook, credit_count, credit_units>>
    ELSE WebhookReceive(w, event, status, payment_id)

\* What request.json() and model_validate make of a body.
Bodies == {"unparsable", "invalid", "valid"}

\* yookassa_webhook_handler as HTTP sees it: 405 for a method other than
\* POST, then the address check, 400 for a body that is not JSON or does not
\* validate, then the handler proper. No forwarding headers.
WebhookHttp(w, method, body, peer_ip, event, status, payment_id) ==
    LET admitted == \/ is_valid_yookassa_ip(
                          extract_effective_client_ip(peer_ip, NoAddress, NoAddress))
                    \/ ngrok_in(WEBHOOK_HOST)
    IN  IF method # "POST" \/ (admitted /\ body # "valid")
        THEN /\ webhook[w].pc = "idle"
             /\ deliveries < MaxDeliveries
             /\ deliveries' = deliveries + 1
             /\ response' = IF method # "POST" THEN [status |-> 405, outcome |-> ""]
                            ELSE IF body = "unparsable"
                            THEN [status |-> 400, outcome |-> "rejected_invalid_body"]
                            ELSE [status |-> 400, outcome |-> "rejected_validation"]
             /\ UNCHANGED <<balanceVars, openingVars, sideVars, messageVars, fileVars, jobVars, transactions,
                            pack_size, package, webhook, credit_count, credit_units>>
        ELSE WebhookRequest(w, peer_ip, NoAddress, NoAddress, event, status, payment_id)

\* A read-back step whose exception path commits the pending txn.status
\* assignment before answering 500.
WebhookVerify_raise_commits(w, raised, api_status, api_value) ==
    /\ webhook[w].pc = "verify"
    /\ LET i == webhook[w].txn IN
       IF raised
       THEN /\ transactions' = [transactions EXCEPT ![i].status = webhook[w].status]
            /\ WebhookRespond(w, 500, "api_verify_failed")
       ELSE IF api_status # "succeeded"
       THEN /\ WebhookRespond(w, 200, "api_verify_failed")
            /\ UNCHANGED transactions
       ELSE IF ~amount_matches(api_value, transactions[i].amount)
       THEN /\ WebhookRespond(w, 200, "rejected_amount_mismatch")
            /\ UNCHANGED transactions
       ELSE /\ webhook' = [webhook EXCEPT ![w].pc = "credit",
                   ![w].snapshot = purchased_credits[transactions[i].user_id]]
            /\ UNCHANGED <<response, transactions>>
    /\ UNCHANGED <<balanceVars, openingVars, sideVars, messageVars, fileVars, jobVars,
                   pack_size, package, deliveries, credit_count, credit_units>>

\* get_payment_status answered (or raised); on a confirmed payment the user
\* row and its balance are read, without a lock.
WebhookVerify(w, raised, api_status, api_value) ==
    /\ webhook[w].pc = "verify"
    /\ LET i == webhook[w].txn IN
       IF raised
       THEN WebhookRespond(w, 500, "api_verify_failed")
       ELSE IF api_status # "succeeded"
       THEN WebhookRespond(w, 200, "api_verify_failed")
       ELSE IF ~amount_matches(api_value, transactions[i].amount)
       THEN WebhookRespond(w, 200, "rejected_amount_mismatch")
       ELSE /\ webhook' = [webhook EXCEPT ![w].pc = "credit",
                   ![w].snapshot = purchased_credits[transactions[i].user_id]]
            /\ UNCHANGED response
    /\ UNCHANGED <<balanceVars, openingVars, sideVars, messageVars, fileVars, jobVars, transactions, pack_size, package,
                   deliveries, credit_count, credit_units>>

\* pack_size = await get_pack_size(session);
\* user.balance.purchased_credits += pack_size; commit (with txn.status).
WebhookCredit(w) ==
    /\ webhook[w].pc = "credit"
    /\ LET i == webhook[w].txn
           a == transactions[i].user_id
           units == get_pack_size
       IN /\ purchased_credits' =
                 [purchased_credits EXCEPT ![a] = webhook[w].snapshot + units]
          /\ transactions' = [transactions EXCEPT ![i].status = webhook[w].status]
          /\ credit_count' = [credit_count EXCEPT ![i] = @ + 1]
          /\ credit_units' = [credit_units EXCEPT ![i] = @ + units]
    /\ webhook' = [webhook EXCEPT ![w].pc = "notify"]
    /\ UNCHANGED <<free_limits_remaining, openingVars, sideVars, messageVars, fileVars, jobVars,
                   pack_size, package, deliveries, response>>

\* The send step as it would be if an exception of bot.send_message left the
\* handler: the endpoint answers 500.
WebhookNotify_raises(w, delivered) ==
    /\ webhook[w].pc = "notify"
    /\ UNCHANGED payment_messages
    /\ IF delivered
       THEN WebhookRespond(w, 200, "accepted")
       ELSE WebhookRespond(w, 500, "")
    /\ UNCHANGED <<balanceVars, openingVars, sideVars, fileVars, confirmation_url, job_messages, jobVars,
                   transactions, pack_size, package, deliveries,
                   credit_count, credit_units>>

\* After the commit: bot.send_message to the user named in the metadata, when
\* there is a bot and the metadata agrees with the transaction; an exception
\* of the send is logged and dropped. Then 200.
WebhookNotify(w, delivered) ==
    /\ webhook[w].pc = "notify"
    /\ payment_messages' =
           IF delivered /\ webhook[w].user_tg_id # None
           THEN [payment_messages EXCEPT ![webhook[w].txn] = @ + 1]
           ELSE payment_messages
    /\ WebhookRespond(w, 200, "accepted")
    /\ UNCHANGED <<balanceVars, openingVars, sideVars, fileVars, confirmation_url, job_messages, jobVars,
                   transactions, pack_size, package, deliveries,
                   credit_count, credit_units>>

\* ---------------------------------------------------------- refund.succeeded
\* yookassa_webhook_handler, event refund.succeeded with a refund id: the
\* refunds_processed row is looked up, without a lock; a delivery that finds
\* it is answered 200 as a duplicate.
RefundReceive(w, refund_id) ==
    /\ refund[w].pc = "idle"
    /\ deliveries < MaxDeliveries
    /\ deliveries' = deliveries + 1
    /\ IF refund_id \in refunds_processed
       THEN /\ response' = [status |-> 200, outcome |-> "ignored_duplicate"]
            /\ UNCHANGED refund
       ELSE /\ refund' = [refund EXCEPT ![w] = [pc |-> "insert", refund_id |-> refund_id]]
            /\ UNCHANGED response
    /\ UNCHANGED <<balanceVars, openingVars, messageVars, fileVars, jobVars, refunds_processed, buyer,
                   WEBHOOK_HOST, transactions, pack_size, package, webhook,
                   credit_count, credit_units>>

\* session.add(RefundProcessed(refund_id, payment_id)); await session.commit():
\* the INSERT of a refund_id that is already there violates the primary key,
\* the IntegrityError leaves the handler and the server answers 500.
RefundInsert(w) ==
    /\ refund[w].pc = "insert"
    /\ IF refund[w].refund_id \in refunds_processed
       THEN /\ response' = [status |-> 500, outcome |-> ""]
            /\ UNCHANGED refunds_processed
       ELSE /\ refunds_processed' = refunds_processed \cup {refund[w].refund_id}
            /\ response' = [status |-> 200, outcome |-> "accepted"]
    /\ refund' = [refund EXCEPT ![w] = IdleRefund]
    /\ UNCHANGED <<balanceVars, openingVars, messageVars, fileVars, jobVars, buyer, WEBHOOK_HOST,
                   transactions, pack_size, package, webhook, deliveries,
                   credit_count, credit_units>>

\* --------------------------------------------------------------- submission
\* A message with a PDF document arrives: its pages are what the worker will
\* download.
Upload(d, file) ==
    /\ documents[d].status = "absent"
    /\ submit[d].pc = "idle"
    /\ pdf[d] = <<>>
    /\ pdf' = [pdf EXCEPT ![d] = file]
    /\ UNCHANGED <<balanceVars, openingVars, sideVars, messageVars, page_results,
                   paymentVars, jobVars>>

\* The handler chain of a photo / document message: the middlewares and
\* get_or_create_user load the user and its balance into the session
\* (LimitsMiddleware answers "limit exhausted" and stops when the total is 0).
SubmitLoad(d, a, pages) ==
    /\ documents[d].status = "absent"
    /\ submit[d].pc = "idle"
    /\ free_limits_remaining[a] + purchased_credits[a] > 0
    /\ submit' = [submit EXCEPT ![d] =
           [pc |-> "spend", user |-> a, free |-> free_limits_remaining[a],
            paid |-> purchased_credits[a], ded_free |-> 0, ded_paid |-> 0]]
    /\ documents' = [documents EXCEPT ![d].llm_page_count = pages]
    /\ UNCHANGED <<balanceVars, openingVars, sideVars, messageVars, fileVars, paymentVars, worker, sweep>>

\* on_document: spend_user_limit(session, user, 1) under the row lock, then
\* the pending Document with the deducted split, committed together.
SubmitSpend(d) ==
    /\ submit[d].pc = "spend"
    /\ LET a == submit[d].user
           r == spend_user_limit(submit[d].free, submit[d].paid, 1)
       IN IF ~r.success
          THEN /\ submit' = [submit EXCEPT ![d] = IdleSubmit]
               /\ documents' = [documents EXCEPT ![d] = NoDocument]
               /\ UNCHANGED balanceVars
          ELSE /\ free_limits_remaining' =
                      Flush(free_limits_remaining, a, submit[d].free, r.free)
               /\ purchased_credits' =
                      Flush(purchased_credits, a, submit[d].paid, r.paid)
               /\ documents' = [documents EXCEPT ![d] =
                      [status |-> "pending", user_id |-> a,
                       deducted_free |-> r.deducted_free,
                       deducted_paid |-> r.deducted_paid,
                       llm_page_count |-> documents[d].llm_page_count,
                       stale |-> FALSE]]
               /\ submit' = [submit EXCEPT ![d] =
                      [pc |-> "enqueue", user |-> a, free |-> r.free, paid |-> r.paid,
                       ded_free |-> r.deducted_free, ded_paid |-> r.deducted_paid]]
    /\ UNCHANGED <<openingVars, sideVars, messageVars, fileVars, paymentVars, worker, sweep>>

\* process_document_task.delay(...) returned: the task is in the queue.
SubmitEnqueued(d) ==
    /\ submit[d].pc = "enqueue"
    /\ submit' = [submit EXCEPT ![d] = IdleSubmit]
    /\ worker' = [worker EXCEPT ![d] = [IdleWorker EXCEPT !.pc = "queued"]]
    /\ UNCHANGED <<balanceVars, openingVars, sideVars, messageVars, fileVars, paymentVars, documents, sweep>>

\* delay(...) raised: refund_user_limit(session, user, ded_free, ded_paid),
\* committed by the session middleware; the Document row stays as it is.
SubmitEnqueueFailed(d) ==
    /\ submit[d].pc = "enqueue"
    /\ LET a == submit[d].user
           r == refund_user_limit(submit[d].free, submit[d].paid,
                                  submit[d].ded_free, submit[d].ded_paid)
       IN /\ free_limits_remaining' =
                 Flush(free_limits_remaining, a, submit[d].free, r.free)
          /\ purchased_credits' =
                 Flush(purchased_credits, a, submit[d].paid, r.paid)
    /\ submit' = [submit EXCEPT ![d] = IdleSubmit]
    /\ UNCHANGED <<openingVars, sideVars, messageVars, fileVars, paymentVars, documents, worker, sweep>>

\* spend_user_limit(session, user, amount) in a session of its own: the row
\* is read under the lock, the result tuple is returned, the caller commits.
SpendCall(a, amount) ==
    /\ LET r == spend_user_limit(free_limits_remaining[a], purchased_credits[a], amount)
       IN /\ free_limits_remaining' = [free_limits_remaining EXCEPT ![a] = r.free]
          /\ purchased_credits' = [purchased_credits EXCEPT ![a] = r.paid]
          /\ spent' = [amount |-> amount, success |-> r.success,
                       deducted_free |-> r.deducted_free,
                       deducted_paid |-> r.deducted_paid]
          /\ before_spend' = [user |-> a, free |-> free_limits_remaining[a],
                              paid |-> purchased_credits[a], refunded |-> FALSE]
    /\ UNCHANGED <<opening_free, opening_paid, sideVars, messageVars, fileVars, paymentVars, jobVars>>

\* refund_user_limit(session, user, deducted_free, deducted_paid) with the
\* split the spend just returned, in the same session (on_document, when the
\* message turns out to carry no file).
RefundCall ==
    /\ spent.success
    /\ ~before_spend.refunded
    /\ LET a == before_spend.user
           r == refund_user_limit(free_limits_remaining[a], purchased_credits[a],
                                  spent.deducted_free, spent.deducted_paid)
       IN /\ free_limits_remaining' = [free_limits_remaining EXCEPT ![a] = r.free]
          /\ purchased_credits' = [purchased_credits EXCEPT ![a] = r.paid]
    /\ before_spend' = [before_spend EXCEPT !.refunded = TRUE]
    /\ UNCHANGED <<opening_free, opening_paid, spent, sideVars, messageVars, fileVars, paymentVars, jobVars>>

\* ------------------------------------------------------------------- worker
\* The task runs that occupy a worker process.
Running == {d \in Docs : worker[d].pc \in {"download", "process", "deliver"}}

\* process_document_task, first commit: the document and its user are
\* loaded, the status becomes processing.
WorkerStart(d) ==
    /\ worker[d].pc = "queued"
    /\ Cardinality(Running) < WorkerPool
    /\ documents[d].status # "absent"
    /\ worker' = [worker EXCEPT ![d].pc = "download",
                                ![d].free = free_limits_remaining[documents[d].user_id],
                                ![d].total_deducted_limits = 1]
    /\ documents' = [documents EXCEPT ![d].status = "processing"]
    /\ UNCHANGED <<balanceVars, openingVars, sideVars, messageVars, fileVars, paymentVars, submit, sweep>>

\* Download and pre-analysis succeeded; for llm_page_count > 0 the delta
\* llm_page_count - 1 is reserved under the row lock, or the job is refused
\* with one unit put back on the free counter.
WorkerAnalyze(d) ==
    /\ worker[d].pc = "download"
    /\ LET a == documents[d].user_id
           llm_page_count == documents[d].llm_page_count
           free == worker[d].free
           paid == purchased_credits[a]
           r == reserve_delta(free, paid, llm_page_count - 1)
       IN IF llm_page_count = 0
          THEN /\ worker' = [worker EXCEPT ![d].pc = "process"]
               /\ UNCHANGED <<balanceVars, documents, job_messages>>
          ELSE IF ~r.sufficient
          THEN /\ free_limits_remaining' = [free_limits_remaining EXCEPT ![a] = free + 1]
               /\ documents' = [documents EXCEPT ![d].status = "error"]
               /\ worker' = [worker EXCEPT ![d] = IdleWorker]
               /\ job_messages' = [job_messages EXCEPT ![d].error = @ + 1]
               /\ UNCHANGED purchased_credits
          ELSE /\ free_limits_remaining' = Flush(free_limits_remaining, a, free, r.free)
               /\ purchased_credits' = Flush(purchased_credits, a, paid, r.paid)
               /\ worker' = [worker EXCEPT ![d].pc = "process",
                                           ![d].free = r.free,
                                           ![d].total_deducted_limits = llm_page_count]
               /\ UNCHANGED <<documents, job_messages>>
    /\ UNCHANGED <<openingVars, sideVars, fileVars, confirmation_url, payment_messages, paymentVars, submit, sweep>>

\* _process_document_bytes returned (for a PDF, the page results of
\* _process_pdf_hybrid): status done is committed, the result is to be sent.
WorkerDone(d) ==
    /\ worker[d].pc = "process"
    /\ page_results' = [page_results EXCEPT ![d] = process_pdf_hybrid(pdf[d])]
    /\ documents' = [documents EXCEPT ![d].status = "done"]
    /\ worker' = [worker EXCEPT ![d].pc = "deliver"]
    /\ UNCHANGED <<balanceVars, openingVars, sideVars, messageVars, pdf, paymentVars,
                   submit, sweep>>

\* The result is sent to the chat: the task returns.
WorkerDelivered(d) ==
    /\ worker[d].pc = "deliver"
    /\ worker' = [worker EXCEPT ![d] = IdleWorker]
    /\ job_messages' = [job_messages EXCEPT ![d].done = @ + 1]
    /\ UNCHANGED <<balanceVars, openingVars, sideVars, fileVars, confirmation_url, payment_messages, paymentVars,
                   documents, submit, sweep>>

\* Exceptions that end a run of process_document_task: what kind of failure
\* it is, and which of the words the except block looks for str(e) holds.
\* A download timeout, an HTTP 429 of the LLM provider, a PDF that cannot be
\* parsed, a missing OPENROUTER_API_KEY.
TaskFailures ==
    {[class |-> "transient", words |-> {}],
     [class |-> "transient", words |-> {"rate", "429"}],
     [class |-> "content", words |-> {}],
     [class |-> "config", words |-> {"openrouter", "api_key"}]}

\* is_llm_or_config_error: "openrouter" / "api_key" / "rate" in
\* str(e).lower(), or "429" in str(e)
llm_or_config_error(e) ==
    e.words \cap {"openrouter", "api_key", "rate", "429"} # {}

\* The except branch: status error; for an error text naming openrouter /
\* api_key / rate / 429 the user gets total_deducted_limits back on the free
\* counter and the task ends, otherwise the task is retried while retries
\* remain. Either way the user is sent an error message.
WorkerFailed(d, is_llm_or_config_error) ==
    /\ worker[d].pc \in {"download", "process", "deliver"}
    /\ LET a == documents[d].user_id IN
       /\ documents' = [documents EXCEPT ![d].status = "error"]
       /\ IF is_llm_or_config_error
          THEN /\ free_limits_remaining' = [free_limits_remaining EXCEPT ![a] =
                      @ + worker[d].total_deducted_limits]
               /\ worker' = [worker EXCEPT ![d] = IdleWorker]
          ELSE /\ UNCHANGED free_limits_remaining
               /\ worker' = [worker EXCEPT ![d] =
                      IF worker[d].retries < max_retries
                      THEN [IdleWorker EXCEPT !.pc = "queued",
                                              !.redeliveries = worker[d].redeliveries,
                                              !.retries = worker[d].retries + 1]
                      ELSE IdleWorker]
    /\ job_messages' = [job_messages EXCEPT ![d].error = @ + 1]
    /\ UNCHANGED <<purchased_credits, openingVars, sideVars, fileVars, confirmation_url, payment_messages,
                   paymentVars, submit, sweep>>

\* The process running the task dies. With task_acks_late the broker hands
\* the unacknowledged message out again when the whole worker is gone; when
\* only the pool child is lost the message is acknowledged and the task is
\* not run again.
WorkerLost(d, redelivered) ==
    /\ worker[d].pc \in {"download", "process", "deliver"}
    /\ redelivered => worker[d].redeliveries < MaxRedeliveries
    /\ worker' = [worker EXCEPT ![d] =
           IF redelivered
           THEN [IdleWorker EXCEPT !.pc = "queued", !.retries = worker[d].retries,
                                   !.redeliveries = worker[d].redeliveries + 1]
           ELSE [IdleWorker EXCEPT !.pc = "lost"]]
    /\ UNCHANGED <<balanceVars, openingVars, sideVars, messageVars, fileVars, paymentVars,
                   documents, submit, sweep>>

\* ----------------------------------------------------------------- reclaimer
\* Time passes: the document is now older than STALE_DOCUMENT_MINUTES.
Tick(d) ==
    /\ documents[d].status \in {"pending", "processing"}
    /\ ~documents[d].stale
    /\ documents' = [documents EXCEPT ![d].stale = TRUE]
    /\ UNCHANGED <<balanceVars, openingVars, sideVars, messageVars, fileVars, paymentVars, submit, worker, sweep>>

\* A sweep that selects only the stale documents still in pending.
StaleDocuments_pending_only ==
    {d \in Docs : documents[d].status = "pending" /\ documents[d].stale}

\* select(Document) where status in (pending, processing) and created_at < threshold
StaleDocuments ==
    {d \in Docs : documents[d].status \in {"pending", "processing"} /\ documents[d].stale}

\* cleanup_stale_documents_task: the stale documents and their users are
\* loaded into the session.
SweepStart(s) ==
    /\ sweep[s].pc = "idle"
    /\ StaleDocuments # {}
    /\ sweep' = [sweep EXCEPT ![s] =
                 [pc |-> "run", docs |-> StaleDocuments,
                  free |-> [a \in Accounts |->
                      IF \E d \in StaleDocuments : documents[d].user_id = a
                      THEN free_limits_remaining[a] ELSE 0]]]
    /\ UNCHANGED <<balanceVars, openingVars, sideVars, messageVars, fileVars, paymentVars, documents, submit, worker>>

\* One iteration of the loop: one unit back on the free counter, status
\* error, and a message to the user.
SweepDocument(s, d) ==
    /\ sweep[s].pc = "run"
    /\ d \in sweep[s].docs
    /\ LET a == documents[d].user_id
           rest == sweep[s].docs \ {d}
       IN /\ free_limits_remaining' =
                 [free_limits_remaining EXCEPT ![a] = sweep[s].free[a] + 1]
          /\ documents' = [documents EXCEPT ![d].status = "error"]
          /\ sweep' = [sweep EXCEPT ![s] =
                 IF rest = {} THEN IdleSweep
                 ELSE [sweep[s] EXCEPT !.docs = rest, !.free[a] = sweep[s].free[a] + 1]]
    /\ job_messages' = [job_messages EXCEPT ![d].error = @ + 1]
    /\ UNCHANGED <<purchased_credits, openingVars, sideVars, fileVars, confirmation_url, payment_messages,
                   paymentVars, submit, worker>>

\* ----------------------------------------------------------- specifications
\* The amount.value strings the provider can report for the intent.
ApiValues(i) ==
    IF i \in Intents
    THEN {NoValue} \cup {transactions[i].amount * 10 + d : d \in ApiDeltas}
    ELSE {NoValue}

\* The amount.value of a payment that was paid as the intent asked.
ExactValue(i) == IF i \in Intents THEN transactions[i].amount * 10 ELSE NoValue

\* The payment side alone: catalog edits, openIntent, and webhook deliveries
\* with every event / status combination and every read-back answer.
NextPayments ==
    \/ \E v \in PackSizeChoices : AdminSetPackSize(v)
    \/ \E p \in PagesChoices, c \in PriceChoices : AdminEditPackage(p, c)
    \/ \E i \in Intents, a \in Accounts : BuyInsert(i, a)
    \/ \E i \in Intents : BuyCreated(i)
    \/ \E i \in Intents : BuyCreateFailed(i)
    \/ \E w \in Handlers, e \in Events, s \in Statuses, p \in Intents \cup {None} :
           WebhookReceive(w, e, s, p)
    \/ \E w \in Handlers, r \in BOOLEAN, s \in ApiStatuses :
           \E v \in ApiValues(webhook[w].txn) : WebhookVerify(w, r, s, v)
    \/ \E w \in Handlers : WebhookCredit(w)
    \/ \E w \in Handlers, delivered \in BOOLEAN : WebhookNotify(w, delivered)

InitPayments == InitBalances({0}, {0}) /\ InitRows
SpecPayments == InitPayments /\ [][NextPayments]_vars

\* The provider's own payment.succeeded notification, delivered again and
\* again, with a read-back that confirms it; the catalog keeps changing.
NextReplay ==
    \/ \E v \in PackSizeChoices : AdminSetPackSize(v)
    \/ \E p \in PagesChoices, c \in PriceChoices : AdminEditPackage(p, c)
    \/ \E i \in Intents, a \in Accounts : BuyInsert(i, a)
    \/ \E i \in Intents : BuyCreated(i)
    \/ \E w \in Handlers, p \in Intents :
           WebhookReceive(w, "payment.succeeded", "succeeded", p)
    \/ \E w \in Handlers :
           WebhookVerify(w, FALSE, "succeeded", ExactValue(webhook[w].txn))
    \/ \E w \in Handlers : WebhookCredit(w)
    \/ \E w \in Handlers, delivered \in BOOLEAN : WebhookNotify(w, delivered)

SpecReplay == InitPayments /\ [][NextReplay]_vars

\* The provider's payment.succeeded notification, redelivered while the
\* status API is at times unreachable and at times confirms the payment.
NextOutage ==
    \/ \E v \in PackSizeChoices : AdminSetPackSize(v)
    \/ \E i \in Intents, a \in Accounts : BuyInsert(i, a)
    \/ \E i \in Intents : BuyCreated(i)
    \/ \E w \in Handlers, p \in Intents :
           WebhookReceive(w, "payment.succeeded", "succeeded", p)
    \/ \E w \in Handlers, r \in BOOLEAN, s \in ApiStatuses :
           \E v \in ApiValues(webhook[w].txn) : WebhookVerify(w, r, s, v)
    \/ \E w \in Handlers : WebhookCredit(w)
    \/ \E w \in Handlers, delivered \in BOOLEAN : WebhookNotify(w, delivered)

SpecOutage == InitPayments /\ [][NextOutage]_vars

\* The job side: submissions, worker runs, and the beat-scheduled stale-job
\* sweep, one run at a time, over the jobs D.
JobsNext(D) ==
    \/ \E d \in D, a \in Accounts, n \in 0..MaxPages : SubmitLoad(d, a, n)
    \/ \E d \in D : SubmitSpend(d)
    \/ \E d \in D : SubmitEnqueued(d)
    \/ \E d \in D : SubmitEnqueueFailed(d)
    \/ \E d \in D : WorkerStart(d)
    \/ \E d \in D : WorkerAnalyze(d)
    \/ \E d \in D : WorkerDone(d)
    \/ \E d \in D : WorkerDelivered(d)
    \/ \E d \in D, e \in BOOLEAN : WorkerFailed(d, e)
    \/ \E d \in D : Tick(d)
    \/ SweepStart(1)
    \/ \E d \in D : SweepDocument(1, d)

NextJobs == JobsNext(Docs)
InitJobs == InitBalances(0..MaxBalance, 0..MaxBalance) /\ InitRows
SpecJobs == InitJobs /\ [][NextJobs]_vars

\* Concurrent submissions whose enqueue goes through.
NextSubmit ==
    \/ \E d \in Docs, a \in Accounts, n \in 0..MaxPages : SubmitLoad(d, a, n)
    \/ \E d \in Docs : SubmitSpend(d)
    \/ \E d \in Docs : SubmitEnqueued(d)

SpecSubmit == InitJobs /\ [][NextSubmit]_vars

\* Every writer of one account's balance at once: a job from submission to
\* its end, the reclaimer, and the settlement of a genuine payment.
NextLedger ==
    \/ JobsNext(1..LedgerDocs)
    \/ \E i \in Intents, a \in Accounts : BuyInsert(i, a)
    \/ \E i \in Intents : BuyCreated(i)
    \/ \E w \in Handlers, p \in Intents :
           WebhookReceive(w, "payment.succeeded", "succeeded", p)
    \/ \E w \in Handlers :
           WebhookVerify(w, FALSE, "succeeded", ExactValue(webhook[w].txn))
    \/ \E w \in Handlers : WebhookCredit(w)
    \/ \E w \in Handlers, delivered \in BOOLEAN : WebhookNotify(w, delivered)

SpecLedger == InitJobs /\ [][NextLedger]_vars

\* spend_user_limit on its own, for every balance and amount up to MaxSpend,
\* and the refund of the split it returned.
NextSpend ==
    \/ \E a \in Accounts, n \in 1..MaxSpend : SpendCall(a, n)
    \/ RefundCall
InitSpend == InitBalances(0..MaxSpend, 0..MaxSpend) /\ InitRows
SpecSpend == InitSpend /\ [][NextSpend]_vars

\* The notifications of a payment and of its refunds: refund.succeeded for a
\* few refund ids, delivered again and again, to handlers that run
\* concurrently with each other and with the settlement of the payment.
NextRefund ==
    \/ \E w \in Handlers, r \in RefundIds : RefundReceive(w, r)
    \/ \E w \in Handlers : RefundInsert(w)
    \/ \E i \in Intents, a \in Accounts : BuyInsert(i, a)
    \/ \E i \in Intents : BuyCreated(i)
    \/ \E w \in Handlers, p \in Intents :
           WebhookReceive(w, "payment.succeeded", "succeeded", p)
    \/ \E w \in Handlers :
           WebhookVerify(w, FALSE, "succeeded", ExactValue(webhook[w].txn))
    \/ \E w \in Handlers : WebhookCredit(w)
    \/ \E w \in Handlers, delivered \in BOOLEAN : WebhookNotify(w, delivered)

SpecRefund == InitPayments /\ [][NextRefund]_vars

\* One job from its submission through its worker runs, retries included,
\* with nothing else writing to the account.
NextRun ==
    \/ \E d \in 1..LedgerDocs, a \in Accounts, n \in 0..MaxPages : SubmitLoad(d, a, n)
    \/ \E d \in 1..LedgerDocs : SubmitSpend(d)
    \/ \E d \in 1..LedgerDocs : SubmitEnqueued(d)
    \/ \E d \in 1..LedgerDocs : WorkerStart(d)
    \/ \E d \in 1..LedgerDocs : WorkerAnalyze(d)
    \/ \E d \in 1..LedgerDocs : WorkerDone(d)
    \/ \E d \in 1..LedgerDocs : WorkerDelivered(d)
    \/ \E d \in 1..LedgerDocs, e \in BOOLEAN : WorkerFailed(d, e)

SpecRun == InitJobs /\ [][NextRun]_vars

\* One job with everything that can settle it: the submission handler, the
\* worker runs and the stale-job sweep.
NextOneJob == JobsNext(1..LedgerDocs)
SpecOneJob == InitJobs /\ [][NextOneJob]_vars

\* The runs of one job on an account that can pay for more than the job
\* costs: submission, then process_document_task and its retries.
SpecRetry == InitSpend /\ [][NextRun]_vars

\* The runs of one job with a delta of up to MaxSpend - 1 units, on an
\* account that may have to pay it from both counters.
NextReconcile ==
    \/ \E d \in 1..LedgerDocs, a \in Accounts, n \in 0..MaxSpend : SubmitLoad(d, a, n)
    \/ \E d \in 1..LedgerDocs : SubmitSpend(d)
    \/ \E d \in 1..LedgerDocs : SubmitEnqueued(d)
    \/ \E d \in 1..LedgerDocs : WorkerStart(d)
    \/ \E d \in 1..LedgerDocs : WorkerAnalyze(d)
    \/ \E d \in 1..LedgerDocs : WorkerDone(d)
    \/ \E d \in 1..LedgerDocs : WorkerDelivered(d)
    \/ \E d \in 1..LedgerDocs, e \in BOOLEAN : WorkerFailed(d, e)

SpecReconcile == InitSpend /\ [][NextReconcile]_vars

\* A PDF job from the upload to the delivery of its result, for every file
\* of up to MaxPdfPages pages; the only failures are those of single pages.
NextHybrid ==
    \/ \E d \in 1..LedgerDocs, file \in PdfFiles : Upload(d, file)
    \/ \E d \in 1..LedgerDocs, a \in Accounts :
           pdf[d] # <<>> /\ SubmitLoad(d, a, pdf_analyze_pages(pdf[d]))
    \/ \E d \in 1..LedgerDocs : SubmitSpend(d)
    \/ \E d \in 1..LedgerDocs : SubmitEnqueued(d)
    \/ \E d \in 1..LedgerDocs : WorkerStart(d)
    \/ \E d \in 1..LedgerDocs : WorkerAnalyze(d)
    \/ \E d \in 1..LedgerDocs : WorkerDone(d)
    \/ \E d \in 1..LedgerDocs : WorkerDelivered(d)

SpecHybrid == InitSpend /\ [][NextHybrid]_vars

\* One job with everything that can happen to its task: an enqueue that
\* fails, runs that fail, are retried or die, and the beat-scheduled sweep.
NextLive ==
    \/ JobsNext(1..LedgerDocs)
    \/ \E d \in 1..LedgerDocs, r \in BOOLEAN : WorkerLost(d, r)

\* The handler finishes a submission it began, the worker takes a queued
\* task and each run comes to an end, time passes, and every due sweep runs
\* and finishes its loop.
LiveFairness ==
    /\ \A d \in 1..LedgerDocs :
          /\ WF_vars(SubmitSpend(d))
          /\ WF_vars(SubmitEnqueued(d) \/ SubmitEnqueueFailed(d))
          /\ WF_vars(WorkerStart(d))
          /\ WF_vars(WorkerAnalyze(d) \/ WorkerFailed(d, FALSE))
          /\ WF_vars(WorkerDone(d) \/ WorkerFailed(d, FALSE))
          /\ WF_vars(WorkerDelivered(d) \/ WorkerFailed(d, FALSE))
          /\ WF_vars(Tick(d))
          /\ WF_vars(SweepDocument(1, d))
    /\ WF_vars(SweepStart(1))

SpecLive == InitJobs /\ [][NextLive]_vars /\ LiveFairness

\* Jobs that stay in the queue until they are stale, and sweeps that overlap:
\* a run that outlasts the beat interval, or a second beat.
NextSweep ==
    \/ \E d \in Docs, a \in Accounts, n \in 0..MaxPages : SubmitLoad(d, a, n)
    \/ \E d \in Docs : SubmitSpend(d)
    \/ \E d \in Docs : SubmitEnqueued(d)
    \/ \E d \in Docs : Tick(d)
    \/ \E s \in Sweepers : SweepStart(s)
    \/ \E s \in Sweepers, d \in Docs : SweepDocument(s, d)

SpecSweep == InitJobs /\ [][NextSweep]_vars

\* Buy callbacks of the accounts, handled concurrently, all within one
\* PENDING_PAYMENTS_WINDOW_MINUTES window, over enough transaction ids for
\* every call to get a row beyond the cap.
BuyIntents == 1..(MAX_PENDING_PAYMENTS + NumBuyers)

NextBuy ==
    \/ \E b \in Buyers, a \in Accounts : OpenCheck(b, a)
    \/ \E b \in Buyers : OpenInsert(b)
    \/ \E b \in Buyers : OpenCreated(b)
    \/ \E b \in Buyers : OpenCreateFailed(b)

InitBuy ==
    /\ InitBalances({0}, {0})
    /\ InitState(BuyIntents, {"bot.example.com"})

SpecBuy == InitBuy /\ [][NextBuy]_vars

\* The webhook endpoint as the network sees it: requests from every kind of
\* peer, with and without forwarding headers, under every WEBHOOK_HOST.
NextGate ==
    \/ \E i \in Intents, a \in Accounts : BuyInsert(i, a)
    \/ \E i \in Intents : BuyCreated(i)
    \/ \E w \in Handlers, peer \in PeerAddresses, x \in RealIpHeaders,
          f \in ForwardedHeaders, m \in Payloads, p \in Intents \cup {None} :
           WebhookRequest(w, peer, x, f, m[1], m[2], p)
    \/ \E w \in Handlers, s \in ApiStatuses :
           WebhookVerify(w, FALSE, s, ExactValue(webhook[w].txn))
    \/ \E w \in Handlers : WebhookCredit(w)
    \/ \E w \in Handlers, delivered \in BOOLEAN : WebhookNotify(w, delivered)

InitGate ==
    /\ InitBalances({0}, {0})
    /\ InitState(Intents, Hosts)

SpecGate == InitGate /\ [][NextGate]_vars

\* Cancellation notifications for the intent from every kind of peer, with
\* and without forwarding headers, under every WEBHOOK_HOST.
NextProxy ==
    \/ \E i \in Intents, a \in Accounts : BuyInsert(i, a)
    \/ \E i \in Intents : BuyCreated(i)
    \/ \E w \in Handlers, peer \in PeerAddresses, x \in RealIpHeaders,
          f \in ForwardedHeaders, p \in Intents :
           WebhookRequest(w, peer, x, f, "payment.canceled", "canceled", p)
    \/ \E w \in Handlers, delivered \in BOOLEAN : WebhookNotify(w, delivered)

SpecProxy == InitGate /\ [][NextProxy]_vars

\* The webhook endpoint with every answer it can give: requests of any
\* method, body and origin, payment notifications with every read-back
\* answer, and refund notifications.
NextEndpoint ==
    \/ \E i \in Intents, a \in Accounts : BuyInsert(i, a)
    \/ \E i \in Intents : BuyCreated(i)
    \/ \E w \in Handlers, method \in {"POST", "GET"}, body \in Bodies,
          peer \in PeerAddresses, m \in Payloads, p \in Intents \cup {None} :
           WebhookHttp(w, method, body, peer, m[1], m[2], p)
    \/ \E w \in Handlers, r \in BOOLEAN, s \in ApiStatuses :
           \E v \in ApiValues(webhook[w].txn) : WebhookVerify(w, r, s, v)
    \/ \E w \in Handlers : WebhookCredit(w)
    \/ \E w \in Handlers, delivered \in BOOLEAN : WebhookNotify(w, delivered)
    \/ \E w \in Handlers, r \in RefundIds : RefundReceive(w, r)
    \/ \E w \in Handlers : RefundInsert(w)

SpecEndpoint == InitPayments /\ [][NextEndpoint]_vars

\* ------------------------------------------------------------------ claims
Terminal == {"succeeded", "canceled"}

\* C1: for a pending intent, the same genuine payment.succeeded notification
\* delivered any number of times, one after another or concurrently, with a
\* confirming read-back, credits the purchased tier exactly once and leaves
\* the intent succeeded; a delivery after the credit changes neither the
\* intent nor any balance.
C1_ReplayCreditsOnce ==
    /\ [](\A i \in Intents :
             /\ credit_count[i] <= 1
             /\ (credit_count[i] = 1 <=> transactions[i].status = "succeeded"))
    /\ [][\A w \in Handlers, p \in Intents :
             (WebhookReceive(w, "payment.succeeded", "succeeded", p)
              /\ credit_count[p] >= 1)
             => /\ UNCHANGED <<balanceVars, transactions, credit_count, credit_units>>
                /\ webhook'[w].pc = "idle"]_vars

\* A replay reached an intent that was credited once.
C1_Witness ==
    \E i \in Intents :
        /\ credit_count[i] = 1
        /\ transactions[i].status = "succeeded"
        /\ deliveries >= 2
        /\ response.outcome = "ignored_duplicate"

\* C2: on settlement, the units added to the purchased tier equal the
\* package_pages frozen on the intent by openIntent, whatever edits of the
\* catalog package or of PAYMENT_PACK_SIZE happened in between; the live
\* pack size is used only for an intent without a snapshot.
C2_CreditIsFrozenUnitCount ==
    \A i \in Intents :
        credit_count[i] > 0 =>
            credit_units[i] = credit_count[i] *
                (IF transactions[i].package_pages # None
                 THEN transactions[i].package_pages ELSE get_pack_size)

\* C3: a payment.succeeded notification for a pending intent whose read-back
\* reports a status other than succeeded, or an amount that differs from the
\* intent's amount after normalising to two decimals, ends with no balance
\* change and the intent still pending in the committed state.
C3_FailedReadbackChangesNothing ==
    [][\A w \in Handlers, s \in ApiStatuses :
          \A v \in ApiValues(webhook[w].txn) :
             (/\ WebhookVerify(w, FALSE, s, v)
              /\ transactions[webhook[w].txn].status = "pending"
              /\ (s # "succeeded" \/ v = NoValue
                  \/ quantize(v) # transactions[webhook[w].txn].amount))
             => /\ UNCHANGED <<balanceVars, transactions, credit_count, credit_units>>
                /\ transactions'[webhook[w].txn].status = "pending"
                /\ webhook'[w].pc = "idle"
                /\ response'.status = 200]_vars

\* A read-back with a different amount was answered, the intent is pending
\* and nothing was credited.
C3_Witness ==
    \E i \in Intents :
        /\ response.outcome = "rejected_amount_mismatch"
        /\ transactions[i].status = "pending"
        /\ credit_count[i] = 0
        /\ purchased_credits = opening_paid

\* C4: in every reachable committed state the status of an intent is one of
\* pending, succeeded, canceled, for every notification that passes body
\* validation, whatever event / status combination its payload carries.
C4_StatusDomain ==
    \A i \in Intents :
        transactions[i].status # "absent" =>
            transactions[i].status \in {"pending", "succeeded", "canceled"}

\* C5: a payment.succeeded or payment.canceled notification for an intent
\* that is already succeeded or canceled is answered 200 and leaves the
\* intent and both balance tiers of every account unchanged, without a call
\* of the provider's status API.
C5_TerminalIntentIsNoOp ==
    [][\A w \in Handlers, e \in {"payment.succeeded", "payment.canceled"},
          s \in Statuses, p \in Intents :
             (/\ WebhookReceive(w, e, s, p)
              /\ FindTransaction(p) # {}
              /\ \A i \in FindTransaction(p) : transactions[i].status \in Terminal)
             => /\ response'.status = 200
                /\ UNCHANGED <<balanceVars, transactions, credit_count, credit_units>>
                /\ webhook'[w].pc = "idle"]_vars

\* A notification for a canceled intent was answered as a duplicate.
C5_Witness ==
    \E i \in Intents :
        /\ transactions[i].status = "canceled"
        /\ response = [status |-> 200, outcome |-> "ignored_duplicate"]
        /\ \A w \in Handlers : webhook[w].pc = "idle"

\* C6: in every reachable committed state the number of webhook credits
\* applied on behalf of an intent is 1 if its status is succeeded and 0
\* otherwise.
C6_CreditIffSucceeded ==
    \A i \in Intents :
        credit_count[i] = IF transactions[i].status = "succeeded" THEN 1 ELSE 0

\* C7: under every interleaving of reserve, release and credit on one
\* account no operation's effect is overwritten: each committing step moves
\* the committed balances by exactly the amount of its own operation.
C7_NoLostUpdate ==
    [][/\ \A w \in Handlers :
             WebhookCredit(w) =>
                 LET a == transactions[webhook[w].txn].user_id IN
                 /\ purchased_credits'[a] = purchased_credits[a] + get_pack_size
                 /\ free_limits_remaining'[a] = free_limits_remaining[a]
       /\ \A d \in Docs :
             (SubmitSpend(d) /\ submit'[d].pc = "enqueue") =>
                 LET a == submit[d].user IN
                 /\ free_limits_remaining'[a] =
                        free_limits_remaining[a] - submit'[d].ded_free
                 /\ purchased_credits'[a] = purchased_credits[a] - submit'[d].ded_paid
       /\ \A d \in Docs :
             SubmitEnqueueFailed(d) =>
                 LET a == submit[d].user IN
                 /\ free_limits_remaining'[a] =
                        free_limits_remaining[a] + submit[d].ded_free
                 /\ purchased_credits'[a] = purchased_credits[a] + submit[d].ded_paid
       /\ \A d \in Docs :
             WorkerAnalyze(d) =>
                 LET a == documents[d].user_id
                     n == documents[d].llm_page_count
                 IN  IF documents'[d].status = "error"
                     THEN /\ free_limits_remaining'[a] = free_limits_remaining[a] + 1
                          /\ purchased_credits'[a] = purchased_credits[a]
                     ELSE IF n > 0
                     THEN free_limits_remaining'[a] + purchased_credits'[a] =
                              free_limits_remaining[a] + purchased_credits[a] - (n - 1)
                     ELSE UNCHANGED balanceVars
       /\ \A s \in Sweepers, d \in Docs :
             SweepDocument(s, d) =>
                 LET a == documents[d].user_id IN
                 /\ free_limits_remaining'[a] = free_limits_remaining[a] + 1
                 /\ purchased_credits'[a] = purchased_credits[a]]_vars

\* C8: of the submissions that run concurrently for one account, each
\* loading the user and then spending one unit, no more succeed than the
\* account's total balance before them.
C8_NoOverReservation ==
    \A a \in Accounts :
        Cardinality({d \in Docs : documents[d].status = "pending"
                                  /\ documents[d].user_id = a})
            <= opening_free[a] + opening_paid[a]

\* C9: in every reachable state, after any sequence of submissions, worker
\* delta deductions, refunds, reclaimer sweeps and webhook credits, the free
\* balance and the purchased balance of every account are at least zero.
C9_BalancesNonNegative ==
    \A a \in Accounts : free_limits_remaining[a] >= 0 /\ purchased_credits[a] >= 0

\* A payment was credited, the worker took the delta of a two-page PDF and
\* the free counter stands at zero.
C9_Witness ==
    \E d \in Docs, i \in Intents :
        /\ credit_count[i] = 1
        /\ documents[d].status = "processing"
        /\ worker[d].total_deducted_limits = 2
        /\ free_limits_remaining[documents[d].user_id] = 0

\* C10: spend_user_limit called with free + purchased < amount returns
\* (False, 0, 0) and leaves both balances unchanged.
C10_InsufficientSpendRefused ==
    [][\A a \in Accounts, n \in 1..MaxSpend :
          (SpendCall(a, n) /\ free_limits_remaining[a] + purchased_credits[a] < n)
          => /\ spent' = [amount |-> n, success |-> FALSE,
                          deducted_free |-> 0, deducted_paid |-> 0]
             /\ UNCHANGED balanceVars]_vars

\* A spend of more than a positive balance holds was refused.
C10_Witness ==
    \E a \in Accounts :
        /\ spent.amount > free_limits_remaining[a] + purchased_credits[a]
        /\ ~spent.success
        /\ free_limits_remaining[a] + purchased_credits[a] > 0

\* C11: a spend the balances cover takes reservedFree = min(free, amount)
\* from the free counter and reservedPaid = amount - reservedFree from the
\* purchased counter, returns that split, and leaves the purchased counter
\* alone unless the free counter is exhausted by the call.
C11_FreeFirstSplit ==
    [][\A a \in Accounts, n \in 1..MaxSpend :
          (SpendCall(a, n) /\ free_limits_remaining[a] + purchased_credits[a] >= n)
          => LET free == free_limits_remaining[a]
                 paid == purchased_credits[a]
                 reservedFree == IF free < n THEN free ELSE n
                 reservedPaid == n - reservedFree
             IN /\ spent' = [amount |-> n, success |-> TRUE,
                             deducted_free |-> reservedFree,
                             deducted_paid |-> reservedPaid]
                /\ free_limits_remaining'[a] = free - reservedFree
                /\ purchased_credits'[a] = paid - reservedPaid
                /\ (purchased_credits'[a] # paid => free_limits_remaining'[a] = 0)]_vars

\* A spend was split over both counters.
C11_Witness ==
    /\ spent.success
    /\ spent.deducted_free > 0
    /\ spent.deducted_paid > 0

\* C12: after a successful spend, refund_user_limit with the split the spend
\* returned puts both counters back to exactly the values they had before
\* the spend.
C12_RefundUndoesSpend ==
    [][RefundCall =>
          LET a == before_spend.user
          IN /\ free_limits_remaining'[a] = before_spend.free
             /\ purchased_credits'[a] = before_spend.paid]_vars

\* A spend split over both counters has been refunded.
C12_Witness ==
    /\ before_spend.refunded
    /\ spent.deducted_free > 0
    /\ spent.deducted_paid > 0
    /\ free_limits_remaining[before_spend.user] = before_spend.free
    /\ purchased_credits[before_spend.user] = before_spend.paid

\* C13: however often, and however concurrently, the same refund id is
\* delivered, every delivery is answered 200 (and the id keeps one row: the
\* rows are a set keyed by refund_id).
C13_EveryRefundDeliveryAnswered200 ==
    [][\A w \in Handlers :
          (RefundInsert(w) \/ \E r \in RefundIds : RefundReceive(w, r))
          => response'.status \in {response.status, 200}]_vars

\* C14: when the pre-analysis finds that the delta beyond the reserved unit
\* exceeds the remaining total, the worker refuses the job (status error, the
\* run ends) and the account's total balance is what it was before the job
\* was submitted.
C14_RefusedDeltaRestoresTotal ==
    [][\A d \in 1..LedgerDocs :
          (WorkerAnalyze(d) /\ documents'[d].status = "error")
          => LET a == documents[d].user_id
             IN /\ worker'[d] = IdleWorker
                /\ free_limits_remaining'[a] + purchased_credits'[a]
                       = opening_free[a] + opening_paid[a]]_vars

\* A job that has come to rest: no handler, worker run or sweep holds it.
AtRest(d) ==
    /\ submit[d].pc = "idle"
    /\ worker[d].pc = "idle"
    /\ \A s \in Sweepers : sweep[s].pc = "idle"

\* C15: when a job ends in error with its reservation refunded (refused
\* delta, processing failure, reclaim), the free counter and the purchased
\* counter are each back at the value they had before the job was submitted.
C15_RefundRestoresEachTier ==
    \A d \in 1..LedgerDocs :
        LET a == documents[d].user_id IN
        (/\ documents[d].status = "error"
         /\ AtRest(d)
         /\ free_limits_remaining[a] + purchased_credits[a]
                = opening_free[a] + opening_paid[a])
        => /\ free_limits_remaining[a] = opening_free[a]
           /\ purchased_credits[a] = opening_paid[a]

\* What a finished job costs: one unit, or one per page that needs the LLM.
JobCost(d) ==
    IF documents[d].llm_page_count > 0 THEN documents[d].llm_page_count ELSE 1

\* C16: whatever the worker runs (retries included), the sweep and the
\* submission handler do, a job that has come to rest is settled exactly
\* once: in error with its reservation refunded once in full, or done with
\* its cost consumed; never refunded twice, never error without a refund.
C16_SettledExactlyOnce ==
    \A d \in 1..LedgerDocs :
        LET a == documents[d].user_id
            total == free_limits_remaining[a] + purchased_credits[a]
            before == opening_free[a] + opening_paid[a]
        IN  AtRest(d) =>
            /\ documents[d].status = "error" => total = before
            /\ documents[d].status = "done" => total = before - JobCost(d)

\* C17: a sweep over a job that an earlier sweep has already put in error
\* leaves the account and the job unchanged, also when the sweeps overlap:
\* the job's unit comes back exactly once.
C17_LaterSweepChangesNothing ==
    [][\A s \in Sweepers, d \in Docs :
          (SweepDocument(s, d) /\ documents[d].status = "error")
          => UNCHANGED <<balanceVars, documents>>]_vars

\* C18: an account never has more than MAX_PENDING_PAYMENTS pending intents
\* created within one window, also when openIntent calls run concurrently.
C18_VelocityCap ==
    \A a \in Accounts : PendingCount(a) <= MAX_PENDING_PAYMENTS

\* C19: when the provider's charge creation fails, the intent row of the
\* attempt is deleted and nothing else in the table changes, so the
\* account's pending count is what it was before the call inserted the row;
\* and no pending intent without a provider reference exists except the row
\* of a call that is still waiting for the provider.
C19_FailedCreationLeavesNoIntent ==
    /\ [](\A i \in DOMAIN transactions :
             (transactions[i].status = "pending"
              /\ transactions[i].yookassa_payment_id = None)
             => \E b \in Buyers : buyer[b].pc = "create" /\ buyer[b].txn = i)
    /\ [][\A b \in Buyers :
             OpenCreateFailed(b)
             => LET i == buyer[b].txn
                    a == buyer[b].user
                IN /\ transactions[i].user_id = a
                   /\ transactions'[i] = NoTransaction
                   /\ \A j \in DOMAIN transactions \ {i} :
                          transactions'[j] = transactions[j]
                   /\ PendingCount(a)' = PendingCount(a) - 1]_vars

\* A call has returned after a failed charge creation while the account has
\* other pending intents.
C19_Witness ==
    \E b \in Buyers :
        /\ buyer[b].pc = "idle"
        /\ buyer[b].outcome = "failed"
        /\ transactions[buyer[b].txn].status = "absent"
        /\ PendingCount(buyer[b].user) > 0

\* C20: under every configuration, a webhook request whose client address
\* is outside the provider's published ranges is answered 403 and changes
\* no intent, no balance and no handler state.
C20_OutsideRangesRejected ==
    [][\A w \in Handlers, peer \in PeerAddresses, x \in RealIpHeaders,
          f \in ForwardedHeaders, m \in Payloads, p \in Intents \cup {None} :
          (/\ WebhookRequest(w, peer, x, f, m[1], m[2], p)
           /\ ~is_valid_yookassa_ip(extract_effective_client_ip(peer, x, f)))
          => /\ response'.status = 403
             /\ UNCHANGED <<balanceVars, transactions, webhook>>]_vars

\* The rows the webhook endpoint commits to.
CommittedByWebhook == <<transactions, purchased_credits, refunds_processed>>

\* C21: the endpoint answers 200 for every notification it handles (settled,
\* canceled, duplicate, unknown event, unknown payment reference, amount
\* mismatch, non-success read-back); it answers 4xx / 5xx only for a method
\* other than POST, a disallowed address, a body that does not parse or
\* validate, or a read-back that raised; and an answer of 400 or above
\* never comes with a committed change.
C21_ErrorAnswersOnlyForBadRequests ==
    [][/\ \A w \in Handlers :
             (\/ WebhookCredit(w)
              \/ \E delivered \in BOOLEAN : WebhookNotify(w, delivered)
              \/ RefundInsert(w)
              \/ \E r \in RefundIds : RefundReceive(w, r)
              \/ \E s \in ApiStatuses, v \in ApiValues(webhook[w].txn) :
                     WebhookVerify(w, FALSE, s, v)
              \/ \E peer \in PeerAddresses, m \in Payloads, p \in Intents \cup {None} :
                     /\ is_valid_yookassa_ip(peer)
                     /\ WebhookHttp(w, "POST", "valid", peer, m[1], m[2], p))
             => response'.status \in {response.status, 200}
       /\ (response' # response /\ response'.status >= 400)
             => UNCHANGED CommittedByWebhook]_vars

\* C22: the user message about a settled or canceled payment is sent only
\* after the commit that changed the intent (and, for a settled payment,
\* the balance); the send step, delivered or failed, changes neither the
\* committed intents nor any balance, and the handler then answers 200.
C22_MessageAfterCommit ==
    [][/\ \A i \in Intents :
             payment_messages'[i] # payment_messages[i]
                => \E w \in Handlers :
                      /\ webhook[w].pc = "notify" /\ webhook[w].txn = i
                      /\ webhook[w].event = "payment.succeeded"
                            => credit_count[i] >= 1
       /\ \A w \in Handlers :
             (webhook[w].pc = "notify" /\ webhook'[w].pc = "idle")
                => /\ UNCHANGED <<transactions, balanceVars, credit_count>>
                   /\ response'.status = 200]_vars

\* A payment was credited, its handler has answered 200, and no message
\* about it reached the user.
C22_Witness ==
    \E i \in Intents :
        /\ credit_count[i] >= 1
        /\ payment_messages[i] = 0
        /\ transactions[i].status = "succeeded"
        /\ \A w \in Handlers : webhook[w].pc = "idle"
        /\ response.status = 200

\* C23: every job that has come to rest in done or error has had exactly one
\* user message for that outcome and none for the other, and every intent
\* that is succeeded or canceled has had at most one message, whatever the
\* number of task runs and webhook deliveries.
C23_OneNotificationPerOutcome ==
    /\ \A d \in Docs :
          AtRest(d) =>
             /\ documents[d].status = "done"
                   => job_messages[d] = [done |-> 1, error |-> 0]
             /\ documents[d].status = "error"
                   => job_messages[d] = [done |-> 0, error |-> 1]
    /\ \A i \in Intents :
          transactions[i].status \in {"succeeded", "canceled"}
             => payment_messages[i] <= 1

\* C24: a run of process_document_task that follows an earlier run of the
\* same job deducts nothing the earlier run already deducted: over all the
\* runs of a job, what has been taken from the account for it never exceeds
\* the job's true cost.
C24_RunsNeverDeductTwice ==
    \A d \in 1..LedgerDocs :
        documents[d].status # "absent" =>
            LET a == documents[d].user_id
            IN  (opening_free[a] + opening_paid[a])
                    - (free_limits_remaining[a] + purchased_credits[a]) <= JobCost(d)

\* C25: a run that fails with a transient error while retries remain gives
\* nothing back and is retried; the run that fails with the retries exhausted
\* gives back everything deducted for the job, so the account's total is
\* what it was before the job was submitted.
C25_RefundWhenRetriesExhausted ==
    [][\A d \in 1..LedgerDocs :
          WorkerFailed(d, FALSE) =>
             LET a == documents[d].user_id
             IN  IF worker[d].retries < max_retries
                 THEN /\ UNCHANGED balanceVars
                      /\ worker'[d].pc = "queued"
                 ELSE /\ worker'[d].pc = "idle"
                      /\ free_limits_remaining'[a] + purchased_credits'[a]
                             = opening_free[a] + opening_paid[a]]_vars

\* deducted_free + deducted_paid summed over the account's jobs in pending or
\* processing.
Reserved(a) ==
    LET sum[n \in 0..NumDocs] ==
            IF n = 0 THEN 0
            ELSE sum[n - 1]
                 + (IF /\ documents[n].user_id = a
                       /\ documents[n].status \in {"pending", "processing"}
                    THEN documents[n].deducted_free + documents[n].deducted_paid
                    ELSE 0)
    IN  sum[NumDocs]

\* C26: in every committed state, for each account none of whose jobs is
\* done or error, the reserved_free + reserved_paid recorded on its jobs in
\* pending or processing add up to the quota removed from the account,
\* also after the worker has deducted the delta of a multi-page document.
C26_ReservedEqualsRemoved ==
    \A a \in Accounts :
        (\A d \in Docs : documents[d].user_id = a
                            => documents[d].status \in {"absent", "pending", "processing"})
        => Reserved(a) = (opening_free[a] + opening_paid[a])
                            - (free_limits_remaining[a] + purchased_credits[a])

\* C27: for a peer outside the trusted-proxy networks the address checked
\* against the allow-list is the peer address itself, whatever X-Real-IP and
\* X-Forwarded-For say: the handler's step for such a request is the very
\* step it takes for the same request with any other pair of those headers.
C27_HeadersOnlyFromTrustedProxy ==
    [][\A w \in Handlers, peer \in PeerAddresses, x \in RealIpHeaders,
          f \in ForwardedHeaders, p \in Intents :
          (/\ ~is_trusted_proxy_ip(peer)
           /\ WebhookRequest(w, peer, x, f, "payment.canceled", "canceled", p))
          => /\ extract_effective_client_ip(peer, x, f) = peer
             /\ \A x2 \in RealIpHeaders, f2 \in ForwardedHeaders :
                   WebhookRequest(w, peer, x2, f2, "payment.canceled", "canceled", p)]_vars

\* A request was refused for its address, and one from a trusted proxy with
\* a forwarded provider address would have been let in.
C27_Witness ==
    /\ response = [status |-> 403, outcome |-> "rejected_ip"]
    /\ ~ngrok_in(WEBHOOK_HOST)
    /\ \E peer \in PeerAddresses, x \in RealIpHeaders :
          /\ is_trusted_proxy_ip(peer)
          /\ is_valid_yookassa_ip(extract_effective_client_ip(peer, x, NoAddress))
    /\ \E peer \in PeerAddresses, x \in RealIpHeaders :
          /\ ~is_trusted_proxy_ip(peer)
          /\ is_valid_yookassa_ip(x)
          /\ ~is_valid_yookassa_ip(extract_effective_client_ip(peer, x, NoAddress))

\* C28: a payment.canceled notification for a pending intent commits the
\* status canceled for it, whatever status its object carries, without a
\* call of the provider's status API and without a change of any balance.
C28_CanceledEventCancels ==
    [][\A w \in Handlers, s \in Statuses, p \in Intents :
          (/\ WebhookReceive(w, "payment.canceled", s, p)
           /\ FindTransaction(p) # {}
           /\ \A i \in FindTransaction(p) : transactions[i].status = "pending")
          => /\ \A i \in FindTransaction(p) : transactions'[i].status = "canceled"
             /\ webhook'[w].pc # "verify"
             /\ UNCHANGED balanceVars]_vars

\* C29: when the status API call raises while a payment.succeeded
\* notification for a pending intent is handled, the answer is 500, the
\* intent stays pending and no balance changes; the redelivery whose
\* read-back confirms the payment with the intent's amount then credits the
\* account, once: an intent is never credited twice, and the credit adds the
\* pack to the balance the handler read if nothing else changed it since.
C29_OutageThenRedeliveryCreditsOnce ==
    /\ [](\A i \in Intents : credit_count[i] <= 1)
    /\ [][\A w \in Handlers :
             /\ (/\ WebhookVerify(w, TRUE, "succeeded", ExactValue(webhook[w].txn))
                 /\ transactions[webhook[w].txn].status = "pending")
                => /\ response' = [status |-> 500, outcome |-> "api_verify_failed"]
                   /\ webhook'[w].pc = "idle"
                   /\ transactions'[webhook[w].txn].status = "pending"
                   /\ UNCHANGED <<balanceVars, transactions, credit_count>>
             /\ (/\ WebhookVerify(w, FALSE, "succeeded", ExactValue(webhook[w].txn))
                 /\ transactions[webhook[w].txn].status = "pending")
                => webhook'[w].pc = "credit"
             /\ WebhookCredit(w)
                => LET i == webhook[w].txn
                       a == transactions[i].user_id
                   IN  /\ credit_count[i] = 0 /\ credit_count'[i] = 1
                       /\ transactions'[i].status = "succeeded"
                       /\ webhook[w].snapshot = purchased_credits[a]
                             => purchased_credits'[a] = purchased_credits[a] + get_pack_size]_vars

\* The last answer given was the 500 of a failed read-back, and a later
\* delivery for the same intent has committed its credit.
C29_Witness ==
    \E w \in Handlers :
        /\ response = [status |-> 500, outcome |-> "api_verify_failed"]
        /\ webhook[w].pc = "notify"
        /\ credit_count[webhook[w].txn] = 1
        /\ transactions[webhook[w].txn].status = "succeeded"
        /\ purchased_credits[transactions[webhook[w].txn].user_id] = get_pack_size

C31_DoneRecordsTotalDeducted ==
    [][\A d \in 1..LedgerDocs :
          /\ WorkerDone(d)
                => documents'[d].deducted_free + documents'[d].deducted_paid
                      = worker[d].total_deducted_limits
          /\ documents[d].status = "done"
                => /\ documents'[d].deducted_free = documents[d].deducted_free
                   /\ documents'[d].deducted_paid = documents[d].deducted_paid]_vars

\* The expensive path fails on a page: it is sent to the LLM and the
\* conversion fails, or every attempt hits the rate limit, or the call that
\* gets through raises.
ExpensivePathFails(page) ==
    /\ page.chars < PDF_MIN_CHARS_PER_PAGE \/ page.lines < 2
    /\ \/ page.convert # "image"
       \/ page.rate_limited >= LLM_ATTEMPTS
       \/ page.answer = "raises"

C33_RetryIffTransient ==
    [][\A d \in 1..LedgerDocs, e \in TaskFailures :
          (/\ WorkerFailed(d, llm_or_config_error(e))
           /\ worker[d].retries < max_retries)
          => /\ documents'[d].status = "error"
             /\ worker'[d].pc = "queued" <=> e.class = "transient"]_vars

\* C34: with the worker and the periodic sweep running, every job that is
\* pending or processing eventually is done or error, whether its task was
\* never enqueued, failed, ran out of retries or died with its process.
C34_EveryJobEnds ==
    \A d \in 1..LedgerDocs :
        (documents[d].status \in {"pending", "processing"})
            ~> (documents[d].status \in {"done", "error"})

\* A job whose task died with its process and was not handed out again has
\* been reclaimed by the sweep.
C34_Witness ==
    \E d \in 1..LedgerDocs :
        /\ worker[d].pc = "lost"
        /\ documents[d].status = "error"
        /\ documents[d].stale
        /\ \A s \in Sweepers : sweep[s].pc = "idle"

\* C35 - once a job's status is done or error, no later step of the worker
\* task (first run, retry, redelivery) and no sweep changes it again.
C35_TerminalStatusIsFinal ==
    [][\A d \in Docs :
          documents[d].status \in {"done", "error"}
              => documents'[d].status = documents[d].status]_vars

\* on_document's except branch has run for job d: delay(...) raised, the
\* reservation was refunded, the Document row is still pending and no task
\* exists for it.
EnqueueFailed(d) ==
    /\ documents[d].status = "pending"
    /\ submit[d].pc = "idle"
    /\ worker[d].pc = "idle"

\* C36 - after the submission handler refunded a job whose task could not be
\* enqueued, no later step (in particular no stale-job sweep) changes the
\* balances of the job's account on behalf of that job: they stay at their
\* values from before the submission.
C36_EnqueueFailureRefundsOnce ==
    [][\A d \in 1..LedgerDocs :
          EnqueueFailed(d)
              => LET a == documents[d].user_id
                 IN /\ free_limits_remaining'[a] = free_limits_remaining[a]
                    /\ purchased_credits'[a] = purchased_credits[a]]_vars

\* C37 - a step that tells the user "your limit was returned" (the except
\* block of the task, on its first run) or "your limit was not charged"
\* (the submission handler after a failed enqueue) leaves the account with
\* the full amount deducted for that job added back to its balances.
C37_RefundMessageIsTrue ==
    [][\A d \in 1..LedgerDocs :
          LET a == documents[d].user_id
              given_back == (free_limits_remaining'[a] + purchased_credits'[a])
                              - (free_limits_remaining[a] + purchased_credits[a])
          IN /\ (/\ \E e \in BOOLEAN : WorkerFailed(d, e)
                 /\ worker[d].retries = 0
                 /\ worker[d].redeliveries = 0)
                => given_back = worker[d].total_deducted_limits
             /\ SubmitEnqueueFailed(d)
                => given_back = submit[d].ded_free + submit[d].ded_paid]_vars

\* A purchase handler that hands the payment link out as soon as the pending
\* row exists, whether or not the provider reference has been stored.
BuyLinkSent_before_store(i) ==
    /\ transactions[i].status = "pending"
    /\ i \notin confirmation_url
    /\ confirmation_url' = confirmation_url \cup {i}
    /\ UNCHANGED <<balanceVars, openingVars, sideVars, fileVars, payment_messages,
                   job_messages, paymentVars, jobVars>>

\* _do_buy_with_package after txn.yookassa_payment_id = payment.id was
\* committed: message.edit_text with payment.confirmation_url.
BuyLinkSent(i) ==
    /\ transactions[i].status # "absent"
    /\ transactions[i].yookassa_payment_id # None
    /\ i \notin confirmation_url
    /\ confirmation_url' = confirmation_url \cup {i}
    /\ UNCHANGED <<balanceVars, openingVars, sideVars, fileVars, payment_messages,
                   job_messages, paymentVars, jobVars>>

\* The user has paid through the link (confirmation type "redirect") and the
\* provider delivers payment.succeeded for that charge.
PaidNotification(w, i) ==
    /\ i \in confirmation_url
    /\ WebhookReceive(w, "payment.succeeded", "succeeded", i)

\* openIntent step by step, interleaved with the deliveries for its charge.
NextCharge ==
    \/ \E v \in PackSizeChoices : AdminSetPackSize(v)
    \/ \E i \in Intents, a \in Accounts : BuyInsert(i, a)
    \/ \E i \in Intents : BuyCreated(i)
    \/ \E i \in Intents : BuyCreateFailed(i)
    \/ \E i \in Intents : BuyLinkSent(i)
    \/ \E w \in Handlers, i \in Intents : PaidNotification(w, i)
    \/ \E w \in Handlers, r \in BOOLEAN, s \in ApiStatuses :
           \E v \in ApiValues(webhook[w].txn) : WebhookVerify(w, r, s, v)
    \/ \E w \in Handlers : WebhookCredit(w)
    \/ \E w \in Handlers, delivered \in BOOLEAN : WebhookNotify(w, delivered)

SpecCharge == InitPayments /\ [][NextCharge]_vars

\* C38 - a payment.succeeded notification for a charge created by openIntent
\* always finds its intent: whatever the interleaving of the purchase
\* handler's steps with the deliveries, no such notification is answered 200
\* "no such intent" while the intent is still pending and uncredited.
C38_PaidChargeFindsIntent ==
    [][\A w \in Handlers, i \in Intents :
          PaidNotification(w, i)
              => /\ FindTransaction(i) = {i}
                 /\ ~(/\ response' = [status |-> 200, outcome |-> "ignored_no_txn"]
                      /\ transactions'[i].status = "pending"
                      /\ credit_count'[i] = 0)]_vars

\* A paid charge's notification found the pending intent and is being verified.
C38_Witness ==
    \E w \in Handlers :
        /\ webhook[w].pc = "verify"
        /\ webhook[w].txn \in confirmation_url
        /\ transactions[webhook[w].txn].status = "pending"

\* The metadata a notification body can carry: user_id and user_tg_id each
\* missing, empty, not a number, or naming an account / a chat as a string
\* or as a number (account NumAccounts + 1 and its chat belong to nobody).
MetadataUserIds ==
    {JsonNone, JsonText} \cup {JsonStr(a) : a \in 1..(NumAccounts + 1)}
                         \cup {JsonInt(a) : a \in Accounts}
MetadataChats ==
    {JsonNone, JsonEmpty, JsonText, JsonInt(0)}
        \cup {JsonStr(tg_id(a)) : a \in 1..(NumAccounts + 1)}
        \cup {JsonInt(tg_id(a)) : a \in Accounts}
Metadata == [user_id : MetadataUserIds, user_tg_id : MetadataChats]

\* Purchases, and notifications with any metadata for their charges.
NextMetadata ==
    \/ \E i \in Intents, a \in Accounts : BuyInsert(i, a)
    \/ \E i \in Intents : BuyCreated(i)
    \/ \E w \in Handlers, e \in {"payment.succeeded", "payment.canceled"},
          p \in Intents, m \in Metadata :
           WebhookHandle(w, e, IF e = "payment.succeeded" THEN "succeeded" ELSE "canceled",
                         p, m)
    \/ \E w \in Handlers, r \in BOOLEAN, s \in ApiStatuses :
           \E v \in ApiValues(webhook[w].txn) : WebhookVerify(w, r, s, v)
    \/ \E w \in Handlers : WebhookCredit(w)
    \/ \E w \in Handlers, delivered \in BOOLEAN : WebhookNotify(w, delivered)

SpecMetadata == InitPayments /\ [][NextMetadata]_vars

====
